---- MODULE Spec2Model ----
(***************************************************************************)
(* DevFlow Dashboard: the relational schema (tables, constraints, cascades, *)
(* row level security policies, views, functions) and the data-access       *)
(* handlers of the application that run statements against it.              *)
(***************************************************************************)
EXTENDS Integers, FiniteSets, Sequences, TLC

\* ------------------------------------------------------------------ bounds
MaxProjects == 2      \* size of the pool of project ids
MaxClients == 1       \* size of the pool of client ids
MaxChildRows == 2     \* rows of project_clients, tasks and project_timeline together
MaxTasks == 9         \* rows of the tasks table in SpecProgress
MaxClock == 2         \* the last instant of the two clocks

Users == {"u1", "u2"}          \* identity tokens (auth.users.id)
Anon == "anon"                 \* a request that carries no session
Service == "service"           \* the authentication service / database owner
Callers == Users \cup {Anon}
NULL == "NULL"                 \* SQL NULL / JavaScript null
\* text values are sequences of characters; NullText is the NULL of a text column
NullText == <<NULL>>
EmailOf == [u \in Users |-> IF u = "u1" THEN <<"a", "l", "@", "x">> ELSE <<"b", "@", "y">>]

ProjectIds == 1..MaxProjects
ClientIds == 1..MaxClients
LinkIds == 1..MaxChildRows
TaskIds == 1..MaxChildRows
TimelineIds == 1..MaxChildRows

VARIABLES
  auth_users,        \* auth.users: set of [id, email, raw_user_meta_data]
  profiles,          \* set of [id, email, full_name]
  projects,          \* set of [id, user_id, type, status, progress, budget, paid_amount,
                     \*         updated_at]
  clients,           \* set of [id, user_id, updated_at]
  project_clients,   \* set of [id, project_id, client_id]
  tasks,             \* set of [id, project_id, completed, updated_at]
  project_timeline,  \* set of [id, project_id]
  formProgress,      \* EditProjectModal: the progress state of the open form
  editing,           \* EditProjectModal: id of the project the form is open on, 0 if closed
  clock,             \* CURRENT_TIMESTAMP / NOW() of the database server
  appClock,          \* new Date() of the application server
  modal,             \* per browser tab: the EditProjectModal open in it and how far its onSubmit got
  wrapper,           \* ProjectsListWrapper: its local projects list, currentPage and filters
  avatars,           \* the avatars bucket, the avatar_url column of profiles, and the
                     \* profile and uploading state of the SettingsForm
  lastOp             \* what the last operation's caller observed

tables == <<auth_users, profiles, projects, clients, project_clients, tasks,
            project_timeline>>
formVars == <<formProgress, editing>>
clockVars == <<clock, appClock>>
uiVars == <<modal, wrapper, avatars>>
vars == <<auth_users, profiles, projects, clients, project_clients, tasks,
          project_timeline, formProgress, editing, clock, appClock, modal, wrapper, avatars,
          lastOp>>

\* browser tabs of one session
Tabs == {"t1", "t2"}
\* a tab with no modal open
ClosedModal ==
  [pc |-> "closed", caller |-> NULL, id |-> 0, type |-> "personal", status |-> "pending",
   progress |-> 0, budget |-> <<>>, paid_amount |-> <<>>, selected |-> {}, rank |-> 0]
\* the projects page not open: no ProjectsListWrapper is mounted. Mounted, it
\* starts with useState(initialProjects), useState(1), filters.statuses: []
NoWrapper == [caller |-> NULL, projects |-> <<>>, currentPage |-> 1, statuses |-> {}]
\* a URL is the sequence of its path segments; no URL (null) is the empty one
NoUrl == <<>>
\* an empty bucket, avatar_url NULL in every profile, no SettingsForm mounted
NoAvatars ==
  [bucket |-> {}, avatar_url |-> [u \in Users |-> NoUrl],
   form |-> [caller |-> NULL, avatar_url |-> NoUrl, uploading |-> FALSE]]
UiInit ==
  /\ modal = [t \in Tabs |-> ClosedModal]
  /\ wrapper = NoWrapper
  /\ avatars = NoAvatars

\* ----------------------------------------------------------------- helpers
Has(r, f) == f \in DOMAIN r
\* { ...base, ...over }
Merge(base, over) ==
  [f \in DOMAIN base \cup DOMAIN over |-> IF f \in DOMAIN over THEN over[f] ELSE base[f]]
\* .eq(column, value) filters, as a record column |-> value
Match(row, filter) == \A f \in DOMAIN filter : Has(row, f) /\ row[f] = filter[f]
NoFilter == <<>>
Ids(T) == {r.id : r \in T}
\* gen_random_uuid(): a fresh token; which one is immaterial, the least free is taken
FreshId(pool, T) == CHOOSE i \in pool \ Ids(T) : \A j \in pool \ Ids(T) : i <= j

\* a numeric column holds NULL or a number: <<>> or <<n>>
NullNum == <<>>
Num(n) == <<n>>
\* a BEFORE UPDATE row trigger that does nothing
keep_updated_at(new) == new
\* update_updated_at_column(), BEFORE UPDATE FOR EACH ROW on profiles, projects,
\* clients and tasks: NEW.updated_at = CURRENT_TIMESTAMP
update_updated_at_column(new) == [new EXCEPT !.updated_at = clock]

\* auth.uid(): the session's subject, NULL without a session
auth_uid(c) == IF c = Anon THEN NULL ELSE c
\* SQL "=": NULL compares equal to nothing
SqlEq(a, b) == a # NULL /\ b # NULL /\ a = b

\* ------------------------------------------------------- row level security
\* Policies "Users can view/insert/update/delete own projects"
projects_select_policy(c, r) == SqlEq(auth_uid(c), r.user_id)
projects_insert_policy(c, r) == SqlEq(auth_uid(c), r.user_id)
projects_update_policy(c, r) == SqlEq(auth_uid(c), r.user_id)
projects_delete_policy(c, r) == SqlEq(auth_uid(c), r.user_id)
\* Policies "Users can view/insert/update/delete own clients"
clients_select_policy(c, r) == SqlEq(auth_uid(c), r.user_id)
clients_insert_policy(c, r) == SqlEq(auth_uid(c), r.user_id)
clients_update_policy(c, r) == SqlEq(auth_uid(c), r.user_id)
clients_delete_policy(c, r) == SqlEq(auth_uid(c), r.user_id)
\* Policies "Users can view own profile" / "Users can update own profile"
profiles_select_policy(c, r) == SqlEq(auth_uid(c), r.id)
profiles_update_policy(c, r) == SqlEq(auth_uid(c), r.id)

\* a weaker test: some project has the id, whoever owns it
ProjectExists(P, c, pid) == \E p \in P : p.id = pid
\* EXISTS (SELECT 1 FROM projects WHERE projects.id = <row>.project_id
\*         AND projects.user_id = auth.uid()); the subquery reads projects as the
\* caller, i.e. through projects_select_policy.
OwnsProject(P, c, pid) ==
  \E p \in P : projects_select_policy(c, p) /\ p.id = pid /\ SqlEq(p.user_id, auth_uid(c))
\* "Users can view own project clients" (SELECT) and "Users can manage own
\* project clients" (ALL: its USING clause is also the check on new rows)
project_clients_select_policy(c, r) == OwnsProject(projects, c, r.project_id)
project_clients_all_policy(c, r) == OwnsProject(projects, c, r.project_id)
tasks_select_policy(c, r) == OwnsProject(projects, c, r.project_id)
tasks_all_policy(c, r) == OwnsProject(projects, c, r.project_id)
project_timeline_select_policy(c, r) == OwnsProject(projects, c, r.project_id)
project_timeline_all_policy(c, r) == OwnsProject(projects, c, r.project_id)

\* a column without the CHECK
progress_check_none(r) == TRUE
\* ------------------------------------------------------------- constraints
\* CHECK (progress >= 0 AND progress <= 100)
progress_check(r) == r.progress >= 0 /\ r.progress <= 100
\* user_id UUID REFERENCES profiles(id) ... NOT NULL
user_id_fk(r) == r.user_id # NULL /\ r.user_id \in Ids(profiles)

\* --------------------------------------------------- statements on projects
\* SELECT ... FROM projects WHERE <filter>, as caller c, on table contents P
SelectProjects(P, c, filter) ==
  {r \in P : projects_select_policy(c, r) /\ Match(r, filter)}

\* INSERT INTO projects: the row the payload makes, with the column defaults
ProjectRow(id, payload) ==
  [id |-> id,
   user_id |-> IF Has(payload, "user_id") THEN payload.user_id ELSE NULL,
   type |-> IF Has(payload, "type") THEN payload.type ELSE "personal",
   status |-> IF Has(payload, "status") THEN payload.status ELSE "pending",
   progress |-> IF Has(payload, "progress") THEN payload.progress ELSE 0,
   budget |-> IF Has(payload, "budget") THEN payload.budget ELSE NullNum,
   paid_amount |-> IF Has(payload, "paid_amount") THEN payload.paid_amount ELSE Num(0),
   updated_at |-> IF Has(payload, "updated_at") THEN payload.updated_at ELSE clock]
InsertProjectOk(P, c, row) ==
  /\ row.id \notin Ids(P)
  /\ user_id_fk(row)
  /\ progress_check(row)
  /\ projects_insert_policy(c, row)

\* UPDATE projects SET <payload> WHERE <filter>
UpdateTargets(P, c, filter) ==
  {r \in P : projects_update_policy(c, r) /\ projects_select_policy(c, r) /\ Match(r, filter)}
\* an update that leaves the stored progress as it is
UpdatedRow_keepProgress(r, payload) ==
  update_updated_at_column(
    [f \in DOMAIN r |-> IF Has(payload, f) /\ f # "progress" THEN payload[f] ELSE r[f]])
UpdatedRow(r, payload) ==
  update_updated_at_column(
    [f \in DOMAIN r |-> IF Has(payload, f) THEN payload[f] ELSE r[f]])
\* id ... PRIMARY KEY: the new row's id is the id of no other row
projects_pkey(P, r, n) == \A o \in P \ {r} : o.id # n.id
\* project_id ... REFERENCES projects(id): a referenced id cannot be changed
project_id_fkeys(r, n) ==
  n.id # r.id => \A t \in project_clients \cup tasks \cup project_timeline : t.project_id # r.id
\* an UPDATE whose new rows are not checked against the policy
UpdateProjectsOk_usingOnly(P, c, filter, payload) ==
  \A r \in UpdateTargets(P, c, filter) :
    LET n == UpdatedRow(r, payload) IN
      user_id_fk(n) /\ progress_check(n) /\ projects_pkey(P, r, n) /\ project_id_fkeys(r, n)
\* a new row that fails a constraint or the policy's check aborts the statement;
\* a policy FOR UPDATE without WITH CHECK applies its USING expression to the new row
UpdateProjectsOk(P, c, filter, payload) ==
  \A r \in UpdateTargets(P, c, filter) :
    LET n == UpdatedRow(r, payload) IN
      /\ user_id_fk(n) /\ progress_check(n) /\ projects_update_policy(c, n)
      /\ projects_pkey(P, r, n) /\ project_id_fkeys(r, n)
UpdateProjectsTable(P, c, filter, payload) ==
  IF UpdateProjectsOk(P, c, filter, payload)
  THEN (P \ UpdateTargets(P, c, filter))
         \cup {UpdatedRow(r, payload) : r \in UpdateTargets(P, c, filter)}
  ELSE P
\* ... RETURNING * (.select()): the rows written, none when the statement failed
UpdateProjectsRows(P, c, filter, payload) ==
  IF UpdateProjectsOk(P, c, filter, payload)
  THEN {UpdatedRow(r, payload) : r \in UpdateTargets(P, c, filter)}
  ELSE {}

\* DELETE FROM projects WHERE <filter>
DeleteTargets(P, c, filter) ==
  {r \in P : projects_delete_policy(c, r) /\ projects_select_policy(c, r) /\ Match(r, filter)}

\* ---------------------------------------------------- statements on clients
SelectClients(C, c, filter) ==
  {r \in C : clients_select_policy(c, r) /\ Match(r, filter)}
ClientRow(id, payload) ==
  [id |-> id, user_id |-> IF Has(payload, "user_id") THEN payload.user_id ELSE NULL,
   updated_at |-> IF Has(payload, "updated_at") THEN payload.updated_at ELSE clock]
InsertClientOk(C, c, row) ==
  /\ row.id \notin Ids(C)
  /\ user_id_fk(row)
  /\ clients_insert_policy(c, row)
DeleteClientTargets(C, c, filter) ==
  {r \in C : clients_delete_policy(c, r) /\ clients_select_policy(c, r) /\ Match(r, filter)}

\* ----------------------------------------------------- ON DELETE CASCADE
\* rows of the child tables that go with a set of deleted projects / clients
LinksOf(pids, cids) ==
  {l \in project_clients : l.project_id \in pids \/ l.client_id \in cids}
\* a tasks.project_id without ON DELETE CASCADE
TasksOf_none(pids) == {}
TasksOf(pids) == {t \in tasks : t.project_id \in pids}
TimelineOf(pids) == {t \in project_timeline : t.project_id \in pids}
CascadeOf(pids, cids) == LinksOf(pids, cids) \cup TasksOf(pids) \cup TimelineOf(pids)

\* ------------------------------------------------- statements on child rows
SelectLinks(c, filter) ==
  {r \in project_clients : project_clients_select_policy(c, r) /\ Match(r, filter)}
SelectTasks(c, filter) == {r \in tasks : tasks_select_policy(c, r) /\ Match(r, filter)}
SelectTimeline(c, filter) ==
  {r \in project_timeline : project_timeline_select_policy(c, r) /\ Match(r, filter)}
\* DELETE FROM project_clients WHERE <filter>
DeleteLinkTargets(L, c, filter) ==
  {r \in L : project_clients_all_policy(c, r) /\ project_clients_select_policy(c, r)
             /\ Match(r, filter)}
\* the constraints of project_clients without UNIQUE(project_id, client_id)
InsertLinksConstraintsOk_noUnique(L, rows) ==
  /\ \A r \in rows : r.project_id \in Ids(projects) /\ r.client_id \in Ids(clients)
  /\ \A r \in rows : r.id \notin Ids(L)
\* INSERT INTO project_clients (project_id, client_id) VALUES ...: one statement;
\* a row that fails the policy's check, a foreign key or UNIQUE(project_id,
\* client_id) fails the whole statement
InsertLinksConstraintsOk(L, rows) ==
  /\ \A r \in rows : r.project_id \in Ids(projects) /\ r.client_id \in Ids(clients)
  /\ \A r \in rows : r.id \notin Ids(L)
  /\ \A r \in rows : \A o \in L \cup (rows \ {r}) :
        ~(o.project_id = r.project_id /\ o.client_id = r.client_id)
InsertLinksOk(L, c, rows) ==
  /\ \A r \in rows : project_clients_all_policy(c, r)
  /\ InsertLinksConstraintsOk(L, rows)
\* the rows a bulk insert of (pid, client) pairs makes, with fresh ids
NewLinks(L, pid, sel) ==
  LET free == LinkIds \ Ids(L)
      f == CHOOSE g \in [sel -> free] : \A a, b \in sel : a # b => g[a] # g[b]
  IN {[id |-> f[cl], project_id |-> pid, client_id |-> cl] : cl \in sel}
ChildRows(L) == Cardinality(L) + Cardinality(tasks) + Cardinality(project_timeline)
CanAllocLinks(L, sel) ==
  /\ Cardinality(sel) <= Cardinality(LinkIds \ Ids(L))
  /\ ChildRows(L) + Cardinality(sel) <= MaxChildRows

\* ------------------------------------------------------------ observations
\* what an operation's caller gets back: the return value and the rows of each
\* table that the operation read or wrote. cand/done: for child tables, the
\* units (sets of row images the policy is applied to) the statement concerns
\* and those on which it took effect.
Obs(op, c, ret, ps, cs) ==
  [op |-> op, caller |-> c, ret |-> ret, projects |-> ps, clients |-> cs,
   stats |-> {}, cand |-> {}, done |-> {}, cascaded |-> {}]
ObsChild(op, c, ret, cand, done) ==
  [op |-> op, caller |-> c, ret |-> ret, projects |-> {}, clients |-> {},
   stats |-> {}, cand |-> cand, done |-> done, cascaded |-> {}]
ObsView(op, c, ps, cs, st) ==
  [op |-> op, caller |-> c, ret |-> "rows", projects |-> ps, clients |-> cs,
   stats |-> st, cand |-> {}, done |-> {}, cascaded |-> {}]
\* a delete of owned rows: the rows deleted and the child rows the cascade took
ObsDelete(op, c, ret, ps, cs, casc) ==
  [op |-> op, caller |-> c, ret |-> ret, projects |-> ps, clients |-> cs,
   stats |-> {}, cand |-> {}, done |-> {}, cascaded |-> casc]

\* a getUser() that takes a request without a session for a user
getUser_anySession(c) == c
\* supabase.auth.getUser(): the session's user, none without a session
getUser(c) == IF c = Anon THEN NULL ELSE c

\* clients:project_clients(client:clients(*)) embedded in a projects select
EmbeddedClients(c, ps) ==
  {cl \in SelectClients(clients, c, NoFilter) :
     \E l \in SelectLinks(c, NoFilter) : l.project_id \in Ids(ps) /\ l.client_id = cl.id}
\* project_clients, tasks(*), timeline:project_timeline(*) of the selected projects
ChildrenOf(ps) ==
  {l \in project_clients : l.project_id \in Ids(ps)}
    \cup {t \in tasks : t.project_id \in Ids(ps)}
    \cup {t \in project_timeline : t.project_id \in Ids(ps)}
EmbeddedChildren(c, ps) ==
  {l \in SelectLinks(c, NoFilter) : l.project_id \in Ids(ps)}
    \cup {t \in SelectTasks(c, NoFilter) : t.project_id \in Ids(ps)}
    \cup {t \in SelectTimeline(c, NoFilter) : t.project_id \in Ids(ps)}
Units(rows) == {{r} : r \in rows}
ObsEmbed(op, c, ret, ps) ==
  [op |-> op, caller |-> c, ret |-> ret, projects |-> ps,
   clients |-> EmbeddedClients(c, ps), stats |-> {},
   cand |-> Units(ChildrenOf(ps)), done |-> Units(EmbeddedChildren(c, ps)),
   cascaded |-> {}]

\* ------------------------------------------------- src/lib/database.ts
getProjects(c) ==
  /\ lastOp' = IF getUser(c) = NULL
               THEN Obs("getProjects", c, "rows", {}, {})
               ELSE ObsEmbed("getProjects", c, "rows",
                             SelectProjects(projects, c, [user_id |-> getUser(c)]))
  /\ UNCHANGED <<tables, formVars, clockVars, uiVars>>

\* a select by id alone, with no policy and no user_id filter
GetProjectRows_byId(P, c, id) == {p \in P : p.id = id}
\* .single(): an error unless exactly one row comes back
GetProjectRows(P, c, id) ==
  IF getUser(c) = NULL THEN {}
  ELSE SelectProjects(P, c, [id |-> id, user_id |-> getUser(c)])
GetProjectRet(P, c, id) ==
  IF Cardinality(GetProjectRows(P, c, id)) = 1 THEN "row" ELSE "null"
getProject(c, id) ==
  /\ lastOp' = ObsEmbed("getProject", c, GetProjectRet(projects, c, id),
                        GetProjectRows(projects, c, id))
  /\ UNCHANGED <<tables, formVars, clockVars, uiVars>>

\* projectData = { ...project, user_id: user.id, created_at: now, updated_at: now },
\* now = new Date().toISOString()
createProject(c, project) ==
  /\ ProjectIds \ Ids(projects) # {}
  /\ LET row == ProjectRow(FreshId(ProjectIds, projects),
                           Merge(project, [user_id |-> getUser(c), updated_at |-> appClock]))
         ok == getUser(c) # NULL /\ InsertProjectOk(projects, c, row)
     IN /\ projects' = IF ok THEN projects \cup {row} ELSE projects
        /\ lastOp' = IF ok THEN Obs("createProject", c, "row", {row}, {})
                     ELSE Obs("createProject", c, "null", {}, {})
  /\ UNCHANGED <<auth_users, profiles, clients, project_clients, tasks, project_timeline, formProgress, editing, clockVars, uiVars>>

UpdateProjectFilter(c, id) == [id |-> id, user_id |-> getUser(c)]
\* updatesWithTimestamp = { ...updates, updated_at: new Date().toISOString() }
updatesWithTimestamp(updates) == Merge(updates, [updated_at |-> appClock])
UpdateProjectRows(P, c, id, updates) ==
  IF getUser(c) = NULL THEN {}
  ELSE UpdateProjectsRows(P, c, UpdateProjectFilter(c, id), updatesWithTimestamp(updates))
UpdateProjectTable(P, c, id, updates) ==
  IF getUser(c) = NULL THEN P
  ELSE UpdateProjectsTable(P, c, UpdateProjectFilter(c, id), updatesWithTimestamp(updates))
UpdateProjectRet(P, c, id, updates) ==
  IF Cardinality(UpdateProjectRows(P, c, id, updates)) = 1 THEN "row" ELSE "null"
updateProject(c, id, updates) ==
  /\ projects' = UpdateProjectTable(projects, c, id, updates)
  /\ lastOp' = Obs("updateProject", c, UpdateProjectRet(projects, c, id, updates),
                   UpdateProjectRows(projects, c, id, updates)
                     \cup (projects \ UpdateProjectTable(projects, c, id, updates)), {})
  /\ UNCHANGED <<auth_users, profiles, clients, project_clients, tasks, project_timeline, formProgress, editing, clockVars, uiVars>>

DeleteProjectRows(P, c, id) ==
  IF getUser(c) = NULL THEN {}
  ELSE DeleteTargets(P, c, [id |-> id, user_id |-> getUser(c)])
\* a DELETE that matches no row is no error
DeleteProjectRet(P, c, id) == IF getUser(c) = NULL THEN "false" ELSE "true"
\* DELETE FROM projects, with the cascade to project_clients, tasks, project_timeline
DeleteProjectsCascade(gone) ==
  /\ projects' = projects \ gone
  /\ project_clients' = project_clients \ LinksOf(Ids(gone), {})
  /\ tasks' = tasks \ TasksOf(Ids(gone))
  /\ project_timeline' = project_timeline \ TimelineOf(Ids(gone))
deleteProject(c, id) ==
  /\ DeleteProjectsCascade(DeleteProjectRows(projects, c, id))
  /\ lastOp' = ObsDelete("deleteProject", c, DeleteProjectRet(projects, c, id),
                         DeleteProjectRows(projects, c, id), {},
                         CascadeOf(Ids(DeleteProjectRows(projects, c, id)), {}))
  /\ UNCHANGED <<auth_users, profiles, clients, formProgress, editing, clockVars, uiVars>>

getClients(c) ==
  /\ lastOp' = Obs("getClients", c, "rows", {},
                   IF getUser(c) = NULL THEN {}
                   ELSE SelectClients(clients, c, [user_id |-> getUser(c)]))
  /\ UNCHANGED <<tables, formVars, clockVars, uiVars>>

\* clientData = { ...client, user_id: user.id }
createNewClient(c, client) ==
  /\ ClientIds \ Ids(clients) # {}
  /\ LET row == ClientRow(FreshId(ClientIds, clients),
                          Merge(client, [user_id |-> getUser(c)]))
         ok == getUser(c) # NULL /\ InsertClientOk(clients, c, row)
     IN /\ clients' = IF ok THEN clients \cup {row} ELSE clients
        /\ lastOp' = IF ok THEN Obs("createNewClient", c, "row", {}, {row})
                     ELSE Obs("createNewClient", c, "null", {}, {})
  /\ UNCHANGED <<auth_users, profiles, projects, project_clients, tasks, project_timeline, formProgress, editing, clockVars, uiVars>>

GetProfileRows(c) ==
  IF getUser(c) = NULL THEN {}
  ELSE {r \in profiles : profiles_select_policy(c, r) /\ r.id = getUser(c)}
getProfile(c) ==
  /\ lastOp' = Obs("getProfile", c,
                   IF Cardinality(GetProfileRows(c)) = 1 THEN "row" ELSE "null", {}, {})
  /\ UNCHANGED <<tables, formVars, clockVars, uiVars>>

\* UPDATE profiles SET <updates> WHERE id = user.id; email is UNIQUE NOT NULL
UpdateProfileTargets(c) ==
  IF getUser(c) = NULL THEN {}
  ELSE {r \in profiles : profiles_update_policy(c, r) /\ profiles_select_policy(c, r)
                         /\ r.id = getUser(c)}
UpdatedProfile(r, updates) ==
  [f \in DOMAIN r |-> IF Has(updates, f) THEN updates[f] ELSE r[f]]
\* the checks of an update of profiles without UNIQUE(email)
UpdateProfileOk_noUnique(c, updates) ==
  \A r \in UpdateProfileTargets(c) : UpdatedProfile(r, updates).email # NullText
UpdateProfileOk(c, updates) ==
  \A r \in UpdateProfileTargets(c) :
    /\ UpdatedProfile(r, updates).email # NullText
    /\ \A o \in profiles \ {r} : o.email # UpdatedProfile(r, updates).email
updateProfile(c, updates) ==
  /\ LET ok == UpdateProfileOk(c, updates) /\ UpdateProfileTargets(c) # {}
     IN /\ profiles' = IF ok
                       THEN (profiles \ UpdateProfileTargets(c))
                              \cup {UpdatedProfile(r, updates) : r \in UpdateProfileTargets(c)}
                       ELSE profiles
        /\ lastOp' = Obs("updateProfile", c, IF ok THEN "row" ELSE "null", {}, {})
  /\ UNCHANGED <<auth_users, projects, clients, project_clients, tasks, project_timeline, formProgress, editing, clockVars, uiVars>>

\* ------------------------------------------------- schema: triggers, views
\* handle_new_user(), AFTER INSERT ON auth.users: INSERT INTO profiles (id, email,
\* full_name); profiles.id is the primary key, profiles.email is UNIQUE. A failure
\* of the trigger fails the insert into auth.users.
handle_new_user_ok(new) ==
  /\ new.id \notin Ids(profiles)
  /\ \A o \in profiles : o.email # new.email
\* raw_user_meta_data->>'key': the text of the key, NULL if absent or JSON null
\* (a key that is absent and a key that is JSON null both read as NullText)
NoMeta == [full_name |-> NullText, name |-> NullText]
JsonText(meta, key) == IF Has(meta, key) THEN meta[key] ELSE NullText
\* COALESCE(a, b, c): the first argument that is not NULL
Coalesce(a, b, c) == IF a # NullText THEN a ELSE IF b # NullText THEN b ELSE c
\* split_part(s, '@', 1): the text before the first '@', all of s if it has none
split_part_1(s) ==
  LET at == {i \in 1..Len(s) : s[i] = "@"}
  IN IF at = {} THEN s
     ELSE SubSeq(s, 1, (CHOOSE i \in at : \A j \in at : i <= j) - 1)
\* the row handle_new_user inserts for NEW
handle_new_user_row(new) ==
  [id |-> new.id, email |-> new.email,
   full_name |-> Coalesce(JsonText(new.raw_user_meta_data, "full_name"),
                          JsonText(new.raw_user_meta_data, "name"),
                          split_part_1(new.email))]
\* what the authentication service reports of an operation on identity new.id
ObsIdentity(op, ret, new) ==
  [op |-> op, caller |-> Service, ret |-> ret, projects |-> {}, clients |-> {},
   stats |-> {}, cand |-> {}, done |-> {}, cascaded |-> {}, arg |-> new]
\* first authentication of token u: INSERT INTO auth.users, which fires
\* on_auth_user_created
signUp(u, e, meta) ==
  /\ u \notin Ids(auth_users)
  /\ LET new == [id |-> u, email |-> e, raw_user_meta_data |-> meta]
         ok == handle_new_user_ok(new)
     IN /\ auth_users' = IF ok THEN auth_users \cup {new} ELSE auth_users
        /\ profiles' = IF ok THEN profiles \cup {handle_new_user_row(new)} ELSE profiles
        /\ lastOp' = ObsIdentity("signUp", IF ok THEN "ok" ELSE "error", new)
  /\ UNCHANGED <<projects, clients, project_clients, tasks, project_timeline, formProgress, editing, clockVars, uiVars>>

\* a later authentication of token u inserts nothing into auth.users:
\* on_auth_user_created is AFTER INSERT only
signIn(u) ==
  /\ \E new \in auth_users :
       new.id = u /\ lastOp' = ObsIdentity("signIn", "ok", new)
  /\ UNCHANGED <<tables, formVars, clockVars, uiVars>>

\* handle_new_user() run once more for the auth.users row of u: the same INSERT
\* (no ON CONFLICT clause); a unique violation is raised to the caller
retry_handle_new_user(u) ==
  /\ \E new \in auth_users :
       /\ new.id = u
       /\ profiles' = IF handle_new_user_ok(new)
                      THEN profiles \cup {handle_new_user_row(new)} ELSE profiles
       /\ lastOp' = ObsIdentity("retry_handle_new_user",
                                IF handle_new_user_ok(new) THEN "ok" ELSE "error", new)
  /\ UNCHANGED <<auth_users, projects, clients, project_clients, tasks, project_timeline, formProgress, editing, clockVars, uiVars>>

\* DELETE FROM auth.users WHERE id = u, with every ON DELETE CASCADE below it:
\* profiles.id -> projects.user_id, clients.user_id -> project_clients.project_id,
\* project_clients.client_id, tasks.project_id, project_timeline.project_id
deleteIdentity(u) ==
  /\ u \in Ids(auth_users)
  /\ LET ps == {p \in projects : p.user_id = u}
         cs == {cl \in clients : cl.user_id = u}
     IN /\ auth_users' = {a \in auth_users : a.id # u}
        /\ profiles' = {r \in profiles : r.id # u}
        /\ projects' = projects \ ps
        /\ clients' = clients \ cs
        /\ project_clients' = project_clients \ LinksOf(Ids(ps), Ids(cs))
        /\ tasks' = tasks \ TasksOf(Ids(ps))
        /\ project_timeline' = project_timeline \ TimelineOf(Ids(ps))
        /\ lastOp' = ObsDelete("deleteIdentity", Service, "ok", ps, cs,
                               CascadeOf(Ids(ps), Ids(cs)))
  /\ UNCHANGED <<formVars, clockVars, uiVars>>

\* numeric division keeps a fixed number of fractional digits and rounds the
\* last one; the quotient is held scaled by DivScale. PostgreSQL keeps at least
\* 16 significant digits, here 6 fractional digits are kept.
DivScale == 10 ^ 6
NumericDiv(a, b) == (2 * a * DivScale + b) \div (2 * b)
\* SUM(column) over a group: NULL values are skipped, the sum of no value is NULL
RECURSIVE SqlSum(_, _)
SqlSum(rows, col) ==
  IF rows = {} THEN NullNum
  ELSE LET r == CHOOSE x \in rows : TRUE
           rest == SqlSum(rows \ {r}, col)
       IN IF r[col] = NullNum THEN rest
          ELSE IF rest = NullNum THEN r[col]
          ELSE Num(r[col][1] + rest[1])
\* COALESCE(x, 0)
Coalesce0(x) == IF x = NullNum THEN 0 ELSE x[1]
\* COALESCE(AVG(progress), 0): a numeric, held scaled by DivScale
RECURSIVE SumProgress(_)
SumProgress(rows) ==
  IF rows = {} THEN 0
  ELSE LET r == CHOOSE x \in rows : TRUE IN r.progress + SumProgress(rows \ {r})
SqlAvgProgress(rows) ==
  IF rows = {} THEN 0 ELSE NumericDiv(SumProgress(rows), Cardinality(rows))
\* A view made by CREATE VIEW (no security_invoker) reads its tables with the
\* rights of the view's owner, the role that created the tables: no policy of
\* the tables applies to the rows the view returns.
ViewSource(T, c) == T
\* projects_with_clients: p.* and the clients joined through project_clients
projects_with_clients_rows(c) == ViewSource(projects, c)
projects_with_clients_clients(c) ==
  {cl \in ViewSource(clients, c) :
     \E l \in ViewSource(project_clients, c) :
        l.client_id = cl.id /\ l.project_id \in Ids(ViewSource(projects, c))}
\* project_stats: one row per user_id of projects (GROUP BY user_id)
project_stats_rows(c) ==
  {LET grp == {p \in ViewSource(projects, c) : p.user_id = u}
   IN [user_id |-> u,
       total_projects |-> Cardinality(grp),
       active_projects |-> Cardinality({p \in grp : p.status = "in_progress"}),
       completed_projects |-> Cardinality({p \in grp : p.status = "completed"}),
       delivered_projects |-> Cardinality({p \in grp : p.status = "delivered"}),
       total_budget |-> Coalesce0(SqlSum(grp, "budget")),
       total_revenue |-> Coalesce0(SqlSum(grp, "paid_amount")),
       average_progress |-> SqlAvgProgress(grp)] :
     u \in {p.user_id : p \in ViewSource(projects, c)}}
select_projects_with_clients(c) ==
  /\ lastOp' = ObsView("projects_with_clients", c, projects_with_clients_rows(c),
                       projects_with_clients_clients(c), {})
  /\ UNCHANGED <<tables, formVars, clockVars, uiVars>>
select_project_stats(c) ==
  /\ lastOp' = ObsView("project_stats", c, {}, {}, project_stats_rows(c))
  /\ UNCHANGED <<tables, formVars, clockVars, uiVars>>

\* ------------------------------------------------------ browser handlers
\* client ids a form can hold as selected: the form lists the clients its own
\* select returned (RLS: the caller's), some of which may have been deleted since
Selectable(c) == {i \in ClientIds : \A cl \in clients : cl.id = i => cl.user_id = c}

\* ------------------------------------------------- ProjectsListWrapper
\* Array.prototype.sort(compare): a stable sort; an element is put before the
\* first one it compares less than
IsCompleted(p) == p.status = "completed" \/ p.status = "delivered"
\* a comparison by updated_at alone
SmartCompare_byTime(a, b) == b.updated_at - a.updated_at
\* the comparison of getSmartOrderedProjects and getRecentProjects
SmartCompare(a, b) ==
  IF IsCompleted(a) /\ ~IsCompleted(b) THEN 1
  ELSE IF ~IsCompleted(a) /\ IsCompleted(b) THEN -1
  ELSE b.updated_at - a.updated_at
RECURSIVE InsertSmart(_, _)
InsertSmart(x, s) ==
  IF s = <<>> THEN <<x>>
  ELSE IF SmartCompare(x, Head(s)) < 0 THEN <<x>> \o s
  ELSE <<Head(s)>> \o InsertSmart(x, Tail(s))
RECURSIVE SortSmart(_)
SortSmart(s) ==
  IF s = <<>> THEN <<>>
  ELSE InsertSmart(s[Len(s)], SortSmart(SubSeq(s, 1, Len(s) - 1)))
\* [...projectList].sort(...)
getSmartOrderedProjects(projectList) == SortSmart(projectList)
\* DashboardOverview.getRecentProjects: smartSorted.slice(0, 6)
RecentLimit == 6
getRecentProjects(ps) ==
  SubSeq(SortSmart(ps), 1, IF Len(ps) < RecentLimit THEN Len(ps) ELSE RecentLimit)
\* filters.statuses of filteredAndSortedProjects, sortBy "smart"
filteredAndSortedProjects(w) ==
  LET keep(p) == w.statuses = {} \/ p.status \in w.statuses
  IN getSmartOrderedProjects(SelectSeq(w.projects, keep))
\* totalPages = Math.ceil(filteredAndSortedProjects.length / ITEMS_PER_PAGE)
ITEMS_PER_PAGE == 12
totalPages(w) ==
  (Len(filteredAndSortedProjects(w)) + ITEMS_PER_PAGE - 1) \div ITEMS_PER_PAGE
\* filteredAndSortedProjects.slice(startIndex, endIndex)
paginatedProjects(w) ==
  LET list == filteredAndSortedProjects(w)
      startIndex == (w.currentPage - 1) * ITEMS_PER_PAGE
      endIndex == startIndex + ITEMS_PER_PAGE
  IN IF startIndex >= Len(list) THEN <<>>
     ELSE SubSeq(list, startIndex + 1, IF endIndex < Len(list) THEN endIndex ELSE Len(list))
\* ProjectsList.handleDeleteProject: projects.filter((p) => p.id !== deleteProject.id),
\* projects being the prop the wrapper passes, the page on display
WithoutProject(w, id) ==
  LET keep(p) == p.id # id IN SelectSeq(paginatedProjects(w), keep)
\* onProjectUpdate(updatedProjects) after a delete, in the session whose page is open
WrapperAfterDelete(c, id) ==
  IF wrapper.caller = c
  THEN [wrapper EXCEPT !.projects = getSmartOrderedProjects(WithoutProject(wrapper, id))]
  ELSE wrapper
\* handleProjectCreated(newProject): the new project with the application's
\* time first, smart order, page 1
WrapperAfterCreate(c, newProject) ==
  IF wrapper.caller = c
  THEN [wrapper EXCEPT
          !.projects = getSmartOrderedProjects(
                         <<[newProject EXCEPT !.updated_at = appClock]>> \o wrapper.projects),
          !.currentPage = 1]
  ELSE wrapper
\* ProjectsList.handleProjectUpdated, whose onProjectUpdate is overwritten by the
\* setProjects of handleProjectEdited(editedProject): the wrapper's list with the
\* edited project replaced and given the application's time, smart order, page 1
WrapperAfterEdit(c, editedProject) ==
  IF wrapper.caller = c
  THEN [wrapper EXCEPT
          !.projects = getSmartOrderedProjects(
                         [i \in DOMAIN wrapper.projects |->
                            IF wrapper.projects[i].id = editedProject.id
                            THEN [editedProject EXCEPT !.updated_at = appClock]
                            ELSE wrapper.projects[i]]),
          !.currentPage = 1]
  ELSE wrapper

\* A text field of a form is a sequence of characters. The amounts of the model
\* are whole numbers: a sign and decimal digits, no fraction part.
DigitChars == <<"0", "1", "2", "3", "4", "5", "6", "7", "8", "9">>
IsDigit(ch) == \E i \in DOMAIN DigitChars : DigitChars[i] = ch
DigitOf(ch) == (CHOOSE i \in DOMAIN DigitChars : DigitChars[i] = ch) - 1
RECURSIVE DigitsPrefix(_)
DigitsPrefix(s) ==
  IF s = <<>> \/ ~IsDigit(Head(s)) THEN <<>> ELSE <<Head(s)>> \o DigitsPrefix(Tail(s))
RECURSIVE DecimalValue(_, _)
DecimalValue(ds, acc) ==
  IF ds = <<>> THEN acc ELSE DecimalValue(Tail(ds), acc * Len(DigitChars) + DigitOf(Head(ds)))
\* NaN in a request body: JSON.stringify writes it as null
NaN == NullNum
\* Number.parseFloat(text): the longest numeric prefix, NaN when there is none
Number_parseFloat(s) ==
  LET signed == s # <<>> /\ Head(s) \in {"-", "+"}
      ds == DigitsPrefix(IF signed THEN Tail(s) ELSE s)
  IN IF ds = <<>> THEN NaN
     ELSE IF signed /\ Head(s) = "-" THEN Num(0 - DecimalValue(ds, 0))
     ELSE Num(DecimalValue(ds, 0))
\* Number.prototype.toString()
RECURSIVE NaturalToString(_)
NaturalToString(n) ==
  IF n < Len(DigitChars) THEN <<DigitChars[n + 1]>>
  ELSE NaturalToString(n \div Len(DigitChars)) \o <<DigitChars[(n % Len(DigitChars)) + 1]>>
Number_toString(n) == IF n < 0 THEN <<"-">> \o NaturalToString(0 - n) ELSE NaturalToString(n)
\* reset({ budget: project.budget?.toString() || "", paid_amount: ... }): the
\* text a money field holds when the form was not typed into
LoadedText(c, id, f) ==
  IF \E r \in SelectProjects(projects, c, [id |-> id]) : r[f] # NullNum
  THEN Number_toString((CHOOSE r \in SelectProjects(projects, c, [id |-> id]) : TRUE)[f][1])
  ELSE <<>>
EditText(c, id, form, f) == IF Has(form, f) THEN form[f] ELSE LoadedText(c, id, f)
\* budget: data.budget ? Number.parseFloat(data.budget) : null,
\* paid_amount: data.paid_amount ? Number.parseFloat(data.paid_amount) : 0
BudgetOf(text) == IF text # <<>> THEN Number_parseFloat(text) ELSE NullNum
PaidAmountOf(text) == IF text # <<>> THEN Number_parseFloat(text) ELSE Num(0)
EditProjectData(c, id, form) ==
  [type |-> form.type, progress |-> form.progress,
   budget |-> BudgetOf(EditText(c, id, form, "budget")),
   paid_amount |-> PaidAmountOf(EditText(c, id, form, "paid_amount"))]

\* EditProjectModal.onSubmit: update the row by id; then, for a client project,
\* delete the project's links and insert one per selected client. Errors of the
\* two link statements are not checked / only logged.
EditLinksAfterDelete(c, id, form) ==
  IF form.type = "client"
  THEN project_clients \ DeleteLinkTargets(project_clients, c, [project_id |-> id])
  ELSE project_clients
EditNewLinks(c, id, form) ==
  IF form.type = "client" /\ form.selected # {}
  THEN NewLinks(EditLinksAfterDelete(c, id, form), id, form.selected)
  ELSE {}
EditProjectModal_onSubmit(c, id, form) ==
  LET payload == EditProjectData(c, id, form)
      rows == UpdateProjectsRows(projects, c, [id |-> id], payload)
      updated == Cardinality(rows) = 1
      L1 == EditLinksAfterDelete(c, id, form)
      new == EditNewLinks(c, id, form)
      inserted == new # {} /\ InsertLinksOk(L1, c, new)
  IN /\ form.type = "client" => CanAllocLinks(L1, form.selected)
     /\ projects' = IF updated THEN UpdateProjectsTable(projects, c, [id |-> id], payload)
                    ELSE projects
     /\ project_clients' = IF ~updated THEN project_clients
                           ELSE IF inserted THEN L1 \cup new ELSE L1
     /\ lastOp' =
          IF ~updated
          THEN Obs("EditProjectModal", c, "error", {}, {})
          ELSE [op |-> "EditProjectModal", caller |-> c, ret |-> "success",
                projects |-> rows \cup (projects \ UpdateProjectsTable(projects, c, [id |-> id], payload)),
                clients |-> {}, stats |-> {},
                cand |-> IF form.type = "client"
                         THEN Units({l \in project_clients : l.project_id = id})
                                \cup (IF InsertLinksConstraintsOk(L1, new) THEN Units(new) ELSE {})
                         ELSE {},
                done |-> Units(project_clients \ L1)
                           \cup (IF inserted THEN Units(new) ELSE {}),
                cascaded |-> {}]
     \* onOpenChange(false) after a success; the form stays open on an error
     /\ editing' = IF updated THEN 0 ELSE editing
     \* onSuccess?.(updatedProject)
     /\ wrapper' = IF updated THEN WrapperAfterEdit(c, CHOOSE p \in rows : TRUE) ELSE wrapper
     /\ UNCHANGED <<auth_users, profiles, clients, tasks, project_timeline, formProgress, clockVars, modal, avatars>>

\* CreateProjectModal.onSubmit: insert the row with user_id: user.id, progress: 0;
\* then, for a client project with a selection, insert one link per selected client
CreateProjectModal_onSubmit(c, form) ==
  /\ ProjectIds \ Ids(projects) # {}
  /\ LET row == ProjectRow(FreshId(ProjectIds, projects),
                           [type |-> form.type, user_id |-> getUser(c), progress |-> 0,
                            budget |-> BudgetOf(IF Has(form, "budget") THEN form.budget ELSE <<>>),
                            paid_amount |-> Num(0)])
         created == getUser(c) # NULL /\ InsertProjectOk(projects, c, row)
         new == IF form.type = "client" /\ form.selected # {} /\ created
                THEN NewLinks(project_clients, row.id, form.selected) ELSE {}
         \* the policy and the foreign key read projects with the new row in it
         inserted == /\ new # {}
                     /\ \A r \in new : OwnsProject(projects \cup {row}, c, r.project_id)
                     /\ \A r \in new : r.client_id \in Ids(clients)
                     /\ \A r \in new : r.id \notin Ids(project_clients)
                     /\ \A r \in new : \A o \in project_clients \cup (new \ {r}) :
                           ~(o.project_id = r.project_id /\ o.client_id = r.client_id)
     IN /\ form.type = "client" => CanAllocLinks(project_clients, form.selected)
        /\ projects' = IF created THEN projects \cup {row} ELSE projects
        /\ project_clients' = IF inserted THEN project_clients \cup new ELSE project_clients
        /\ lastOp' =
             IF ~created
             THEN Obs("CreateProjectModal", c, "error", {}, {})
             ELSE [op |-> "CreateProjectModal", caller |-> c, ret |-> "success",
                   projects |-> {row}, clients |-> {}, stats |-> {},
                   cand |-> IF inserted THEN Units(new) ELSE {},
                   done |-> IF inserted THEN Units(new) ELSE {}, cascaded |-> {}]
        \* onSuccess?.(newProject)
        /\ wrapper' = IF created THEN WrapperAfterCreate(c, row) ELSE wrapper
  /\ UNCHANGED <<auth_users, profiles, clients, tasks, project_timeline, formProgress, editing, clockVars, modal, avatars>>

\* ProjectsList.handleDeleteProject / DashboardOverview: delete().eq("id", id)
handleDeleteProject(c, id) ==
  /\ DeleteProjectsCascade(DeleteTargets(projects, c, [id |-> id]))
  /\ lastOp' = ObsDelete("handleDeleteProject", c, "success",
                         DeleteTargets(projects, c, [id |-> id]), {},
                         CascadeOf(Ids(DeleteTargets(projects, c, [id |-> id])), {}))
  /\ wrapper' = WrapperAfterDelete(c, id)
  /\ UNCHANGED <<auth_users, profiles, clients, formProgress, editing, clockVars, modal, avatars>>

\* ClientsList.handleDeleteClient: delete().eq("id", id), cascading to the links
handleDeleteClient(c, id) ==
  /\ clients' = clients \ DeleteClientTargets(clients, c, [id |-> id])
  /\ project_clients' =
       project_clients \ LinksOf({}, Ids(DeleteClientTargets(clients, c, [id |-> id])))
  /\ lastOp' = ObsDelete("handleDeleteClient", c, "success", {},
                         DeleteClientTargets(clients, c, [id |-> id]),
                         CascadeOf({}, Ids(DeleteClientTargets(clients, c, [id |-> id]))))
  /\ UNCHANGED <<auth_users, profiles, projects, tasks, project_timeline, formProgress, editing, clockVars, uiVars>>

\* fetchClients of the two modals: from("clients").select("*"), no filter
fetchClients(c) ==
  /\ lastOp' = Obs("fetchClients", c, "rows", {}, SelectClients(clients, c, NoFilter))
  /\ UNCHANGED <<tables, formVars, clockVars, uiVars>>

\* CreateClientModal.onSubmit: insert with user_id: user.id
CreateClientModal_onSubmit(c) ==
  /\ ClientIds \ Ids(clients) # {}
  /\ LET row == ClientRow(FreshId(ClientIds, clients), [user_id |-> getUser(c)])
         ok == getUser(c) # NULL /\ InsertClientOk(clients, c, row)
     IN /\ clients' = IF ok THEN clients \cup {row} ELSE clients
        /\ lastOp' = IF ok THEN Obs("CreateClientModal", c, "success", {}, {row})
                     ELSE Obs("CreateClientModal", c, "error", {}, {})
  /\ UNCHANGED <<auth_users, profiles, projects, project_clients, tasks, project_timeline, formProgress, editing, clockVars, uiVars>>

\* ------------------------------------- statements on the child tables (API)
\* The data API runs any statement a session sends; the policies decide.
\* INSERT INTO tasks (project_id, completed)
insert_task(c, pid, completed) ==
  /\ TaskIds \ Ids(tasks) # {} /\ ChildRows(project_clients) < MaxChildRows
  /\ LET row == [id |-> FreshId(TaskIds, tasks), project_id |-> pid, completed |-> completed,
                 updated_at |-> clock]
         fk == pid \in Ids(projects)
         ok == fk /\ tasks_all_policy(c, row)
     IN /\ tasks' = IF ok THEN tasks \cup {row} ELSE tasks
        /\ lastOp' = ObsChild("insert_task", c, IF ok THEN "row" ELSE "error",
                              IF fk THEN {{row}} ELSE {}, IF ok THEN {{row}} ELSE {})
  /\ UNCHANGED <<auth_users, profiles, projects, clients, project_clients, project_timeline, formProgress, editing, clockVars, uiVars>>

\* UPDATE <child> SET <payload> WHERE id = id: USING on the old row, the same
\* expression as the check on the new row
ChildUpdated(r, payload) ==
  [f \in DOMAIN r |-> IF Has(payload, f) THEN payload[f] ELSE r[f]]
\* UPDATE tasks: the new row, after update_tasks_updated_at
TaskUpdated(r, payload) == update_updated_at_column(ChildUpdated(r, payload))
update_task(c, id, payload) ==
  /\ LET hit == {r \in tasks : r.id = id}
         targets == {r \in hit : tasks_all_policy(c, r) /\ tasks_select_policy(c, r)}
         fk == \A r \in hit : TaskUpdated(r, payload).project_id \in Ids(projects)
         ok == fk /\ \A r \in targets : tasks_all_policy(c, TaskUpdated(r, payload))
     IN /\ tasks' = IF ok THEN (tasks \ targets) \cup {TaskUpdated(r, payload) : r \in targets}
                    ELSE tasks
        /\ lastOp' = ObsChild("update_task", c, IF ok THEN "rows" ELSE "error",
                              IF fk THEN {{r, TaskUpdated(r, payload)} : r \in hit} ELSE {},
                              IF ok THEN {{r, TaskUpdated(r, payload)} : r \in targets} ELSE {})
  /\ UNCHANGED <<auth_users, profiles, projects, clients, project_clients, project_timeline, formProgress, editing, clockVars, uiVars>>

delete_task(c, id) ==
  /\ LET hit == {r \in tasks : r.id = id}
         targets == {r \in hit : tasks_all_policy(c, r) /\ tasks_select_policy(c, r)}
     IN /\ tasks' = tasks \ targets
        /\ lastOp' = ObsChild("delete_task", c, "rows", Units(hit), Units(targets))
  /\ UNCHANGED <<auth_users, profiles, projects, clients, project_clients, project_timeline, formProgress, editing, clockVars, uiVars>>

select_tasks(c) ==
  /\ lastOp' = ObsChild("select_tasks", c, "rows", Units(tasks), Units(SelectTasks(c, NoFilter)))
  /\ UNCHANGED <<tables, formVars, clockVars, uiVars>>

insert_timeline(c, pid) ==
  /\ TimelineIds \ Ids(project_timeline) # {} /\ ChildRows(project_clients) < MaxChildRows
  /\ LET row == [id |-> FreshId(TimelineIds, project_timeline), project_id |-> pid]
         fk == pid \in Ids(projects)
         ok == fk /\ project_timeline_all_policy(c, row)
     IN /\ project_timeline' = IF ok THEN project_timeline \cup {row} ELSE project_timeline
        /\ lastOp' = ObsChild("insert_timeline", c, IF ok THEN "row" ELSE "error",
                              IF fk THEN {{row}} ELSE {}, IF ok THEN {{row}} ELSE {})
  /\ UNCHANGED <<auth_users, profiles, projects, clients, project_clients, tasks, formProgress, editing, clockVars, uiVars>>

update_timeline(c, id, payload) ==
  /\ LET hit == {r \in project_timeline : r.id = id}
         targets == {r \in hit : project_timeline_all_policy(c, r)
                                 /\ project_timeline_select_policy(c, r)}
         fk == \A r \in hit : ChildUpdated(r, payload).project_id \in Ids(projects)
         ok == fk /\ \A r \in targets : project_timeline_all_policy(c, ChildUpdated(r, payload))
     IN /\ project_timeline' =
             IF ok THEN (project_timeline \ targets)
                          \cup {ChildUpdated(r, payload) : r \in targets}
             ELSE project_timeline
        /\ lastOp' = ObsChild("update_timeline", c, IF ok THEN "rows" ELSE "error",
                              IF fk THEN {{r, ChildUpdated(r, payload)} : r \in hit} ELSE {},
                              IF ok THEN {{r, ChildUpdated(r, payload)} : r \in targets} ELSE {})
  /\ UNCHANGED <<auth_users, profiles, projects, clients, project_clients, tasks, formProgress, editing, clockVars, uiVars>>

delete_timeline(c, id) ==
  /\ LET hit == {r \in project_timeline : r.id = id}
         targets == {r \in hit : project_timeline_all_policy(c, r)
                                 /\ project_timeline_select_policy(c, r)}
     IN /\ project_timeline' = project_timeline \ targets
        /\ lastOp' = ObsChild("delete_timeline", c, "rows", Units(hit), Units(targets))
  /\ UNCHANGED <<auth_users, profiles, projects, clients, project_clients, tasks, formProgress, editing, clockVars, uiVars>>

select_timeline(c) ==
  /\ lastOp' = ObsChild("select_timeline", c, "rows", Units(project_timeline),
                        Units(SelectTimeline(c, NoFilter)))
  /\ UNCHANGED <<tables, formVars, clockVars, uiVars>>

\* INSERT INTO project_clients (project_id, client_id)
insert_link(c, pid, cid) ==
  /\ CanAllocLinks(project_clients, {cid})
  /\ LET row == [id |-> FreshId(LinkIds, project_clients), project_id |-> pid,
                 client_id |-> cid]
         valid == InsertLinksConstraintsOk(project_clients, {row})
         ok == InsertLinksOk(project_clients, c, {row})
     IN /\ project_clients' = IF ok THEN project_clients \cup {row} ELSE project_clients
        /\ lastOp' = ObsChild("insert_link", c, IF ok THEN "row" ELSE "error",
                              IF valid THEN {{row}} ELSE {}, IF ok THEN {{row}} ELSE {})
  /\ UNCHANGED <<auth_users, profiles, projects, clients, tasks, project_timeline, formProgress, editing, clockVars, uiVars>>

delete_link(c, id) ==
  /\ LET hit == {r \in project_clients : r.id = id}
         targets == DeleteLinkTargets(project_clients, c, [id |-> id])
     IN /\ project_clients' = project_clients \ targets
        /\ lastOp' = ObsChild("delete_link", c, "rows", Units(hit), Units(targets))
  /\ UNCHANGED <<auth_users, profiles, projects, clients, tasks, project_timeline, formProgress, editing, clockVars, uiVars>>

\* UPDATE project_clients SET <payload> WHERE id = id
update_link(c, id, payload) ==
  /\ LET hit == {r \in project_clients : r.id = id}
         targets == {r \in hit : project_clients_all_policy(c, r)
                                 /\ project_clients_select_policy(c, r)}
         valid == \A r \in hit :
                    InsertLinksConstraintsOk(project_clients \ {r},
                                             {ChildUpdated(r, payload)})
         ok == valid /\ \A r \in targets :
                            project_clients_all_policy(c, ChildUpdated(r, payload))
     IN /\ project_clients' =
             IF ok THEN (project_clients \ targets)
                          \cup {ChildUpdated(r, payload) : r \in targets}
             ELSE project_clients
        /\ lastOp' = ObsChild("update_link", c, IF ok THEN "rows" ELSE "error",
                              IF valid THEN {{r, ChildUpdated(r, payload)} : r \in hit} ELSE {},
                              IF ok THEN {{r, ChildUpdated(r, payload)} : r \in targets} ELSE {})
  /\ UNCHANGED <<auth_users, profiles, projects, clients, tasks, project_timeline, formProgress, editing, clockVars, uiVars>>

select_links(c) ==
  /\ lastOp' = ObsChild("select_links", c, "rows", Units(project_clients),
                        Units(SelectLinks(c, NoFilter)))
  /\ UNCHANGED <<tables, formVars, clockVars, uiVars>>

\* --------------------------------------- EditProjectModal: the progress form
\* useEffect on [project, open]: reset(...) and setProgress(project.progress || 0);
\* the project is the row the list holds
openEditModal(id) ==
  /\ editing = 0
  /\ \E p \in projects : p.id = id /\ formProgress' = p.progress
  /\ editing' = id
  /\ lastOp' = Obs("openEditModal", Service, "ok", {}, {})
  /\ UNCHANGED <<tables, clockVars, uiVars>>

\* adjustProgress(increment): Math.max(0, Math.min(100, progress + increment))
Min(a, b) == IF a <= b THEN a ELSE b
Max(a, b) == IF a >= b THEN a ELSE b
AdjustedProgress(progress, increment) == Max(0, Min(100, progress + increment))
\* the -5 button is disabled at progress <= 0, the +5 button at progress >= 100
adjustProgress(increment) ==
  /\ editing # 0
  /\ IF increment < 0 THEN formProgress > 0 ELSE formProgress < 100
  /\ formProgress' = AdjustedProgress(formProgress, increment)
  /\ lastOp' = Obs("adjustProgress", Service, "ok", {}, {})
  /\ UNCHANGED <<tables, editing, clockVars, uiVars>>

\* <Slider max={100} step={1}> onValueChange: setProgress(value[0])
SliderMax == 100
Slider_onValueChange(value) ==
  /\ editing # 0
  /\ value \in 0..SliderMax
  /\ formProgress' = value
  /\ lastOp' = Obs("Slider", Service, "ok", {}, {})
  /\ UNCHANGED <<tables, editing, clockVars, uiVars>>

\* the preset buttons [25, 50, 75, 100]: setProgress(value)
Presets == {25, 50, 75, 100}
Preset_onClick(value) ==
  /\ editing # 0
  /\ value \in Presets
  /\ formProgress' = value
  /\ lastOp' = Obs("Preset", Service, "ok", {}, {})
  /\ UNCHANGED <<tables, editing, clockVars, uiVars>>

\* ---------------------------------------- calculate_project_progress(uuid)
\* truncation to an integer instead of rounding
NumericTrunc(x) == x \div DivScale
\* ROUND(numeric): to the nearest integer, ties away from zero (argument >= 0)
NumericRound(x) == (2 * x + DivScale) \div (2 * DivScale)
calculate_project_progress(project_uuid) ==
  LET total_tasks == Cardinality({t \in tasks : t.project_id = project_uuid})
      completed_tasks ==
        Cardinality({t \in tasks : t.project_id = project_uuid /\ t.completed = TRUE})
  IN IF total_tasks = 0 THEN 0
     ELSE NumericRound(NumericDiv(completed_tasks, total_tasks) * 100)
\* SELECT calculate_project_progress(uuid)
select_calculate_project_progress(project_uuid) ==
  /\ lastOp' = [op |-> "calculate_project_progress", caller |-> Service,
                arg |-> project_uuid, ret |-> calculate_project_progress(project_uuid)]
  /\ UNCHANGED <<tables, formVars, clockVars, uiVars>>

\* --------------------------------------------------------- specifications
Init ==
  /\ auth_users = {}
  /\ profiles = {}
  /\ projects = {}
  /\ clients = {}
  /\ project_clients = {}
  /\ tasks = {}
  /\ project_timeline = {}
  /\ formProgress = 0
  /\ editing = 0
  /\ clock = 0
  /\ appClock = 0
  /\ UiInit
  /\ lastOp = Obs("init", Service, "ok", {}, {})

\* payloads of the typed data-access functions (Partial<Project>, Partial<Client>,
\* Partial<Profile>); a caller may put any column in them
CreatePayloads == {[progress |-> 50]} \cup {[user_id |-> u] : u \in Users}
UpdatePayloads == {[progress |-> 50], [progress |-> 0]} \cup {[user_id |-> u] : u \in Users}
ClientPayloads == {[user_id |-> u] : u \in Users}
ProfilePayloads == {[email |-> EmailOf[u]] : u \in Users}
EditForms == {[type |-> "personal", progress |-> p, selected |-> {}] : p \in {0, 50}}
CreateForms == {[type |-> "personal", selected |-> {}]}

\* Spec: the owned tables (profiles, projects, clients) under every handler that
\* reads or writes them, the two views included
Next ==
  \/ \E u \in Users : signUp(u, EmailOf[u], NoMeta)
  \/ \E u \in Users : deleteIdentity(u)
  \/ \E c \in Callers : getProjects(c)
  \/ \E c \in Callers, id \in ProjectIds : getProject(c, id)
  \/ \E c \in Callers, p \in CreatePayloads : createProject(c, p)
  \/ \E c \in Callers, id \in ProjectIds, p \in UpdatePayloads : updateProject(c, id, p)
  \/ \E c \in Callers, id \in ProjectIds : deleteProject(c, id)
  \/ \E c \in Callers : getClients(c)
  \/ \E c \in Callers, p \in ClientPayloads : createNewClient(c, p)
  \/ \E c \in Callers : getProfile(c)
  \/ \E c \in Callers, p \in ProfilePayloads : updateProfile(c, p)
  \/ \E c \in Callers, id \in ProjectIds, f \in EditForms : EditProjectModal_onSubmit(c, id, f)
  \/ \E c \in Callers, f \in CreateForms : CreateProjectModal_onSubmit(c, f)
  \/ \E c \in Callers, id \in ProjectIds : handleDeleteProject(c, id)
  \/ \E c \in Callers, id \in ClientIds : handleDeleteClient(c, id)
  \/ \E c \in Callers : fetchClients(c)
  \/ \E c \in Callers : CreateClientModal_onSubmit(c)
  \/ \E c \in Callers : select_projects_with_clients(c)
  \/ \E c \in Callers : select_project_stats(c)

Spec == Init /\ [][Next]_vars

\* SpecServer: the functions of src/lib/database.ts, for sessions of the
\* provisioned identities and for requests without a session
NextServer ==
  \/ \E u \in Users : signUp(u, EmailOf[u], NoMeta)
  \/ \E c \in Callers : getProjects(c)
  \/ \E c \in Callers, id \in ProjectIds : getProject(c, id)
  \/ \E c \in Callers, p \in CreatePayloads : createProject(c, p)
  \/ \E c \in Callers, id \in ProjectIds, p \in UpdatePayloads : updateProject(c, id, p)
  \/ \E c \in Callers, id \in ProjectIds : deleteProject(c, id)
  \/ \E c \in Callers : getClients(c)
  \/ \E c \in Callers, p \in ClientPayloads : createNewClient(c, p)
  \/ \E c \in Callers : getProfile(c)
  \/ \E c \in Callers, p \in ProfilePayloads : updateProfile(c, p)

SpecServer == Init /\ [][NextServer]_vars

\* SpecChild: the child tables under the statements a session can send
TaskPayloads == {[project_id |-> p, completed |-> TRUE] : p \in ProjectIds}
TimelinePayloads == {[project_id |-> p] : p \in ProjectIds}
LinkPayloads == {[project_id |-> p] : p \in ProjectIds} \cup {[client_id |-> i] : i \in ClientIds}
NextChild ==
  \/ \E u \in Users : signUp(u, EmailOf[u], NoMeta)
  \/ \E c \in Users : createProject(c, [progress |-> 50])
  \/ \E c \in Users : CreateClientModal_onSubmit(c)
  \/ \E c \in Callers, pid \in ProjectIds : insert_task(c, pid, FALSE)
  \/ \E c \in Callers, id \in TaskIds, p \in TaskPayloads : update_task(c, id, p)
  \/ \E c \in Callers, id \in TaskIds : delete_task(c, id)
  \/ \E c \in Callers : select_tasks(c)
  \/ \E c \in Callers, pid \in ProjectIds : insert_timeline(c, pid)
  \/ \E c \in Callers, id \in TimelineIds, p \in TimelinePayloads : update_timeline(c, id, p)
  \/ \E c \in Callers, id \in TimelineIds : delete_timeline(c, id)
  \/ \E c \in Callers : select_timeline(c)
  \/ \E c \in Callers, pid \in ProjectIds, cid \in ClientIds : insert_link(c, pid, cid)
  \/ \E c \in Callers, id \in LinkIds, p \in LinkPayloads : update_link(c, id, p)
  \/ \E c \in Callers, id \in LinkIds : delete_link(c, id)
  \/ \E c \in Callers : select_links(c)

SpecChild == Init /\ [][NextChild]_vars

\* SpecCascade: every table, under the operations that create and delete rows
ClientForms(c) == {[type |-> "client", progress |-> 0, selected |-> sel] : sel \in SUBSET Selectable(c)}
NextCascade ==
  \/ \E u \in Users : signUp(u, EmailOf[u], NoMeta)
  \/ \E u \in Users : deleteIdentity(u)
  \/ \E c \in Users : \E f \in ClientForms(c) : CreateProjectModal_onSubmit(c, f)
  \/ \E c \in Users, id \in ProjectIds : \E f \in ClientForms(c) : EditProjectModal_onSubmit(c, id, f)
  \/ \E c \in Users : CreateClientModal_onSubmit(c)
  \/ \E c \in Users, id \in ProjectIds : handleDeleteProject(c, id)
  \/ \E c \in Users, id \in ClientIds : handleDeleteClient(c, id)
  \/ \E c \in Users, pid \in ProjectIds : insert_task(c, pid, FALSE)
  \/ \E c \in Users, pid \in ProjectIds : insert_timeline(c, pid)
  \/ \E c \in Users, pid \in ProjectIds, cid \in ClientIds : insert_link(c, pid, cid)
  \/ \E c \in Users, id \in LinkIds : delete_link(c, id)

SpecCascade == Init /\ [][NextCascade]_vars

\* SpecRange: the progress column of one project row, under every way to set it
ProgressInputs == {-1, 0, 100, 101}
SliderInputs == {0, 3, 100}
RangeUsers == {"u1"}
NextRange ==
  \/ \E u \in RangeUsers : signUp(u, EmailOf[u], NoMeta)
  \/ \E c \in RangeUsers, p \in ProgressInputs : projects = {} /\ createProject(c, [progress |-> p])
  \/ \E c \in RangeUsers : projects = {} /\ CreateProjectModal_onSubmit(c, [type |-> "personal", selected |-> {}])
  \/ \E c \in RangeUsers, id \in ProjectIds, p \in ProgressInputs : updateProject(c, id, [progress |-> p])
  \/ \E id \in ProjectIds : openEditModal(id)
  \/ \E i \in {-5, 5} : adjustProgress(i)
  \/ \E v \in SliderInputs : Slider_onValueChange(v)
  \/ \E v \in Presets : Preset_onClick(v)
  \/ \E c \in RangeUsers : editing # 0 /\ EditProjectModal_onSubmit(c, editing,
                         [type |-> "personal", progress |-> formProgress, selected |-> {}])

SpecRange == Init /\ [][NextRange]_vars

\* SpecProgress: calculate_project_progress on every tasks table of up to
\* MaxTasks rows spread over two projects
ProgressProjects == {1, 2}
TaskTable(t1, c1, t2, c2) ==
  {[id |-> i, project_id |-> 1, completed |-> (i <= c1), updated_at |-> 0] : i \in 1..t1}
    \cup {[id |-> t1 + i, project_id |-> 2, completed |-> (i <= c2), updated_at |-> 0] :
            i \in 1..t2}
InitProgress ==
  /\ auth_users = {[id |-> "u1", email |-> EmailOf["u1"], raw_user_meta_data |-> NoMeta]}
  /\ profiles = {handle_new_user_row([id |-> "u1", email |-> EmailOf["u1"],
                                       raw_user_meta_data |-> NoMeta])}
  /\ projects = {ProjectRow(p, [user_id |-> "u1", updated_at |-> 0]) : p \in ProgressProjects}
  /\ clients = {}
  /\ project_clients = {}
  /\ \E t1 \in 0..MaxTasks : \E t2 \in 0..(MaxTasks - t1) :
       \E c1 \in 0..t1 : \E c2 \in 0..t2 : tasks = TaskTable(t1, c1, t2, c2)
  /\ project_timeline = {}
  /\ formProgress = 0
  /\ editing = 0
  /\ clock = 0
  /\ appClock = 0
  /\ UiInit
  /\ lastOp = Obs("init", Service, "ok", {}, {})
NextProgress == \E p \in ProgressProjects : select_calculate_project_progress(p)

SpecProgress == InitProgress /\ [][NextProgress]_vars

\* SettingsForm.handleSubmit: update({full_name, email}).eq("id", user.id); an
\* error is thrown and shown as "Update failed", else "Success"
SettingsForm_handleSubmit(c, formData) ==
  /\ LET updates == [full_name |-> formData.full_name, email |-> formData.email]
         ok == getUser(c) # NULL /\ UpdateProfileOk(c, updates)
     IN /\ profiles' = IF ok
                       THEN (profiles \ UpdateProfileTargets(c))
                              \cup {UpdatedProfile(r, updates) : r \in UpdateProfileTargets(c)}
                       ELSE profiles
        /\ lastOp' = [Obs("SettingsForm", c, IF ok THEN "success" ELSE "error", {}, {})
                      EXCEPT !.done = IF ok THEN UpdateProfileTargets(c) ELSE {}]
  /\ UNCHANGED <<auth_users, projects, clients, project_clients, tasks, project_timeline, formProgress, editing, clockVars, uiVars>>

\* SpecIdentity: auth.users and profiles under provisioning, later
\* authentications, profile updates and identity deletion
Metas == [full_name : {NullText, <<"F">>}, name : {NullText, <<"N">>}]
FormEmails == {EmailOf[u] : u \in Users} \cup {<<"c">>}
SettingsForms == [full_name : {<<"G">>}, email : FormEmails]
NextIdentity ==
  \/ \E u \in Users, m \in Metas : signUp(u, EmailOf[u], m)
  \/ \E u \in Users : signIn(u)
  \/ \E u \in Users : retry_handle_new_user(u)
  \/ \E u \in Users : deleteIdentity(u)
  \/ \E c \in Callers : getProfile(c)
  \/ \E c \in Callers, p \in ProfilePayloads : updateProfile(c, p)
  \/ \E c \in Callers, f \in SettingsForms : SettingsForm_handleSubmit(c, f)

SpecIdentity == Init /\ [][NextIdentity]_vars

\* UPDATE clients SET <payload> WHERE id = id (data API), with
\* update_clients_updated_at
ClientUpdated(r, payload) ==
  update_updated_at_column([f \in DOMAIN r |-> IF Has(payload, f) THEN payload[f] ELSE r[f]])
update_client(c, id, payload) ==
  /\ LET targets == {r \in clients : clients_update_policy(c, r)
                                     /\ clients_select_policy(c, r) /\ r.id = id}
         ok == \A r \in targets : /\ user_id_fk(ClientUpdated(r, payload))
                                  /\ clients_update_policy(c, ClientUpdated(r, payload))
     IN /\ clients' = IF ok THEN (clients \ targets)
                                   \cup {ClientUpdated(r, payload) : r \in targets}
                      ELSE clients
        /\ lastOp' = Obs("update_client", c, IF ok THEN "rows" ELSE "error", {},
                         IF ok THEN {ClientUpdated(r, payload) : r \in targets} ELSE {})
  /\ UNCHANGED <<auth_users, profiles, projects, project_clients, tasks, project_timeline, formProgress, editing, clockVars, uiVars>>

\* time passes on the database server; the application server's clock is
\* another machine's and shows any instant
tick ==
  /\ clock < MaxClock
  /\ clock' = clock + 1
  /\ lastOp' = Obs("tick", Service, "ok", {}, {})
  /\ UNCHANGED <<tables, formVars, appClock, uiVars>>
appTick(t) ==
  /\ t \in 0..MaxClock /\ t # appClock
  /\ appClock' = t
  /\ lastOp' = Obs("appTick", Service, "ok", {}, {})
  /\ UNCHANGED <<tables, formVars, clock, uiVars>>

\* SpecTime: the updated_at columns of projects, clients and tasks under the
\* two clocks
TimeUsers == {"u1"}
Instants == 0..MaxClock
NextTime ==
  \/ tick
  \/ \E t \in Instants : appTick(t)
  \/ \E u \in TimeUsers : signUp(u, EmailOf[u], NoMeta)
  \/ \E c \in TimeUsers : projects = {} /\ createProject(c, [progress |-> 50])
  \/ \E c \in TimeUsers : projects = {}
        /\ CreateProjectModal_onSubmit(c, [type |-> "personal", selected |-> {}])
  \/ \E c \in TimeUsers, id \in ProjectIds, t \in Instants :
        updateProject(c, id, [progress |-> 0, updated_at |-> t])
  \/ \E c \in TimeUsers, id \in ProjectIds :
        EditProjectModal_onSubmit(c, id, [type |-> "personal", progress |-> 25, selected |-> {}])
  \/ \E c \in TimeUsers : CreateClientModal_onSubmit(c)
  \/ \E c \in TimeUsers, id \in ClientIds, t \in Instants :
        update_client(c, id, [updated_at |-> t])
  \/ \E c \in TimeUsers, pid \in ProjectIds : tasks = {} /\ insert_task(c, pid, FALSE)
  \/ \E c \in TimeUsers, id \in TaskIds, t \in Instants :
        update_task(c, id, [completed |-> TRUE, updated_at |-> t])

SpecTime == Init /\ [][NextTime]_vars

\* ------------------------------------ DashboardPage / DashboardOverview
\* const projects = await getProjects(); <DashboardOverview initialProjects={projects} />
DashboardProjects(c) ==
  IF getUser(c) = NULL THEN {}
  ELSE SelectProjects(projects, c, [user_id |-> getUser(c)])
\* p.paid_amount || 0
OrZero(x) == IF x = NullNum THEN 0 ELSE x[1]
\* reduce((sum, p) => sum + (p.paid_amount || 0), 0)
RECURSIVE ReducePaid(_)
ReducePaid(ps) ==
  IF ps = {} THEN 0
  ELSE LET p == CHOOSE x \in ps : TRUE IN OrZero(p.paid_amount) + ReducePaid(ps \ {p})
totalProjects(ps) == Cardinality(ps)
activeProjects(ps) == Cardinality({p \in ps : p.status = "in_progress"})
completedProjects(ps) ==
  Cardinality({p \in ps : p.status = "completed" \/ p.status = "delivered"})
totalRevenue(ps) == ReducePaid({p \in ps : p.type = "client"})
DashboardOverview(ps) ==
  [totalProjects |-> totalProjects(ps), activeProjects |-> activeProjects(ps),
   completedProjects |-> completedProjects(ps), totalRevenue |-> totalRevenue(ps)]
DashboardPage(c) ==
  /\ lastOp' = ObsView("DashboardPage", c, DashboardProjects(c), {},
                       {DashboardOverview(DashboardProjects(c))})
  /\ UNCHANGED <<tables, formVars, clockVars, uiVars>>

\* SpecStats: projects of every status and type, with and without money, and
\* the two places that aggregate them
StatsPayloads ==
  {[type |-> "client", status |-> "in_progress", progress |-> 50,
    budget |-> Num(10), paid_amount |-> Num(5)],
   [type |-> "client", status |-> "completed", progress |-> 100,
    budget |-> Num(10), paid_amount |-> Num(10)],
   [type |-> "client", status |-> "delivered", progress |-> 100,
    budget |-> Num(20), paid_amount |-> Num(20)],
   [type |-> "personal", status |-> "pending", progress |-> 0,
    budget |-> NullNum, paid_amount |-> Num(0)],
   [type |-> "personal", status |-> "in_progress", progress |-> 25,
    budget |-> Num(7), paid_amount |-> Num(3)]}
NextStats ==
  \/ \E u \in Users : signUp(u, EmailOf[u], NoMeta)
  \/ \E c \in Users, project \in StatsPayloads : createProject(c, project)
  \/ \E c \in Users, id \in ProjectIds : deleteProject(c, id)
  \/ \E c \in Users : select_project_stats(c)
  \/ \E c \in Users : DashboardPage(c)

SpecStats == Init /\ [][NextStats]_vars

\* SpecMoney: the budget and paid amount of a project, written by the two
\* modals from the text of their fields and by the server functions from a payload
MoneyUsers == {"u1"}
MoneyTexts == {<<>>, <<"-", "5">>, <<"1", "2">>, <<"x">>}
MoneyValues == {NullNum, Num(-5), Num(3)}
TouchedForms ==
  {[type |-> "client", progress |-> 0, selected |-> {},
    budget |-> b, paid_amount |-> a] : b \in MoneyTexts, a \in MoneyTexts}
NextMoney ==
  \/ \E u \in MoneyUsers : signUp(u, EmailOf[u], NoMeta)
  \/ \E c \in MoneyUsers, b \in MoneyTexts : projects = {}
        /\ CreateProjectModal_onSubmit(c, [type |-> "client", selected |-> {}, budget |-> b])
  \/ \E c \in MoneyUsers, id \in ProjectIds, form \in TouchedForms :
        EditProjectModal_onSubmit(c, id, form)
  \/ \E c \in MoneyUsers, id \in ProjectIds :
        EditProjectModal_onSubmit(c, id, [type |-> "personal", progress |-> 50, selected |-> {}])
  \/ \E c \in MoneyUsers, b \in MoneyValues : projects = {} /\ createProject(c, [budget |-> b])
  \/ \E c \in MoneyUsers, id \in ProjectIds, a \in MoneyValues :
        updateProject(c, id, [paid_amount |-> a])

SpecMoney == Init /\ [][NextMoney]_vars

\* ------------------------------------------- a failing storage collaborator
\* The { data, error } a statement comes back with: no error, the service not
\* reachable, PostgREST's "no rows returned" of .single(), a denied statement
NoError == "none"
StorageErrors == {NoError, "unreachable", "PGRST116", "42501"}
WithError(obs, error) == Merge(obs, [error |-> error])
\* getProjects(): if (error) { console.error(...); return [] }; the catch
\* block returns [] as well
getProjects_result(c, error) ==
  /\ lastOp' = WithError(IF getUser(c) = NULL \/ error # NoError
                         THEN Obs("getProjects", c, "rows", {}, {})
                         ELSE ObsEmbed("getProjects", c, "rows",
                                       SelectProjects(projects, c, [user_id |-> getUser(c)])),
                         error)
  /\ UNCHANGED <<tables, formVars, clockVars, uiVars>>
\* getClients(): if (error) { console.error(...); return [] }
getClients_result(c, error) ==
  /\ lastOp' = WithError(Obs("getClients", c, "rows", {},
                             IF getUser(c) = NULL \/ error # NoError THEN {}
                             ELSE SelectClients(clients, c, [user_id |-> getUser(c)])),
                         error)
  /\ UNCHANGED <<tables, formVars, clockVars, uiVars>>
\* GET /api/health: from("profiles").select("count").limit(1).single(); .single()
\* gives PGRST116 when no row comes back; any other error is thrown and caught
HealthError(c, error) ==
  IF error # NoError THEN error
  ELSE IF {r \in profiles : profiles_select_policy(c, r)} = {} THEN "PGRST116"
  ELSE NoError
HealthStatus(error) ==
  IF error # NoError /\ error # "PGRST116" THEN "unhealthy" ELSE "healthy"
HealthDatabase(error) ==
  IF error # NoError /\ error # "PGRST116" THEN "disconnected" ELSE "connected"
health_GET(c, error) ==
  /\ lastOp' = [WithError(Obs("health", c, HealthStatus(HealthError(c, error)), {}, {}),
                          HealthError(c, error))
                EXCEPT !.cand = {HealthDatabase(HealthError(c, error))}]
  /\ UNCHANGED <<tables, formVars, clockVars, uiVars>>

\* SpecFault: the reads of the server functions and the health check, with the
\* storage answering or failing
NextFault ==
  \/ \E u \in Users : signUp(u, EmailOf[u], NoMeta)
  \/ \E c \in Users : createProject(c, [progress |-> 50])
  \/ \E c \in Users : createNewClient(c, <<>>)
  \/ \E c \in Callers, error \in StorageErrors : getProjects_result(c, error)
  \/ \E c \in Callers, error \in StorageErrors : getClients_result(c, error)
  \/ \E c \in Callers, error \in StorageErrors : health_GET(c, error)

SpecFault == Init /\ [][NextFault]_vars

\* ------------------- EditProjectModal in a browser tab, statement by statement
\* project.budget?.toString() || ""
TextOf(x) == IF x = NullNum THEN <<>> ELSE Number_toString(x[1])
\* useEffect on [project, open]: reset({ type, status, budget, paid_amount, progress }),
\* setProgress(project.progress || 0), fetchClients() with setSelectedClients
\* for a client project
openModal(tab, c, id) ==
  /\ modal[tab].pc \in {"closed", "done"}
  /\ \E p \in SelectProjects(projects, c, [id |-> id]) :
       modal' = [modal EXCEPT ![tab] =
                   [pc |-> "open", caller |-> c, id |-> id, type |-> p.type,
                    status |-> p.status, progress |-> p.progress,
                    budget |-> TextOf(p.budget), paid_amount |-> TextOf(p.paid_amount),
                    selected |-> IF p.type = "client"
                                 THEN {l.client_id : l \in SelectLinks(c, [project_id |-> id])}
                                 ELSE {},
                    rank |-> 0]]
  /\ lastOp' = Obs("openModal", c, "ok", {}, {})
  /\ UNCHANGED <<tables, formVars, clockVars, wrapper, avatars>>
\* the user changes fields of the open form
editForm(tab, change) ==
  /\ modal[tab].pc = "open"
  /\ modal' = [modal EXCEPT ![tab] = Merge(@, change)]
  /\ lastOp' = Obs("editForm", modal[tab].caller, "ok", {}, {})
  /\ UNCHANGED <<tables, formVars, clockVars, wrapper, avatars>>
\* handleClientToggle(clientId, checked)
handleClientToggle(tab, clientId, checked) ==
  /\ modal[tab].pc = "open"
  /\ clientId \in Selectable(modal[tab].caller)
  /\ checked = (clientId \notin modal[tab].selected)
  /\ modal' = [modal EXCEPT ![tab].selected =
                 IF checked THEN @ \cup {clientId} ELSE @ \ {clientId}]
  /\ lastOp' = Obs("handleClientToggle", modal[tab].caller, "ok", {}, {})
  /\ UNCHANGED <<tables, formVars, clockVars, wrapper, avatars>>
\* the projectData of onSubmit, from the tab's form
ModalProjectData(m) ==
  [type |-> m.type, status |-> m.status, progress |-> m.progress,
   budget |-> BudgetOf(m.budget), paid_amount |-> PaidAmountOf(m.paid_amount)]
\* the order in which the tabs' updates committed: the latest has the highest rank
Ranked(tab) ==
  [t \in Tabs |-> IF t = tab THEN Cardinality(Tabs) ELSE Max(0, modal[t].rank - 1)]
\* onSubmit, first statement: from("projects").update(projectData).eq("id", project.id)
\* .select().single(); on an error a toast and return, the modal stays open
onSubmit_update(tab) ==
  LET m == modal[tab]
      rows == UpdateProjectsRows(projects, m.caller, [id |-> m.id], ModalProjectData(m))
      updated == Cardinality(rows) = 1
  IN /\ m.pc = "open"
     /\ projects' = IF updated
                    THEN UpdateProjectsTable(projects, m.caller, [id |-> m.id], ModalProjectData(m))
                    ELSE projects
     /\ modal' = IF updated
                 THEN [t \in Tabs |->
                         IF t = tab
                         THEN [m EXCEPT !.pc = IF m.type = "client" THEN "updated" ELSE "done",
                                        !.rank = Ranked(tab)[t]]
                         ELSE [modal[t] EXCEPT !.rank = Ranked(tab)[t]]]
                 ELSE modal
     /\ lastOp' = Obs("onSubmit_update", m.caller, IF updated THEN "row" ELSE "error", rows, {})
     /\ UNCHANGED <<auth_users, profiles, clients, project_clients, tasks, project_timeline,
                    formVars, clockVars, wrapper, avatars>>
\* second statement, for a client project:
\* from("project_clients").delete().eq("project_id", project.id), result not looked at
onSubmit_delete(tab) ==
  LET m == modal[tab]
  IN /\ m.pc = "updated"
     /\ project_clients' =
          project_clients \ DeleteLinkTargets(project_clients, m.caller, [project_id |-> m.id])
     /\ modal' = [modal EXCEPT ![tab].pc = IF m.selected # {} THEN "deleted" ELSE "done"]
     /\ lastOp' = Obs("onSubmit_delete", m.caller, "ok", {}, {})
     /\ UNCHANGED <<auth_users, profiles, projects, clients, tasks, project_timeline,
                    formVars, clockVars, wrapper, avatars>>
\* third statement, with a selection: from("project_clients").insert(projectClientData);
\* an error is logged; then toast.success and onOpenChange(false)
onSubmit_insert(tab) ==
  LET m == modal[tab]
      new == NewLinks(project_clients, m.id, m.selected)
  IN /\ m.pc = "deleted"
     /\ CanAllocLinks(project_clients, m.selected)
     /\ project_clients' = IF InsertLinksOk(project_clients, m.caller, new)
                           THEN project_clients \cup new ELSE project_clients
     /\ modal' = [modal EXCEPT ![tab].pc = "done"]
     /\ lastOp' = Obs("onSubmit_insert", m.caller,
                      IF InsertLinksOk(project_clients, m.caller, new) THEN "ok" ELSE "error",
                      {}, {})
     /\ UNCHANGED <<auth_users, profiles, projects, clients, tasks, project_timeline,
                    formVars, clockVars, wrapper, avatars>>
\* onOpenChange(false) by the user
closeModal(tab) ==
  /\ modal[tab].pc = "open"
  /\ modal' = [modal EXCEPT ![tab] = ClosedModal]
  /\ lastOp' = Obs("closeModal", modal[tab].caller, "ok", {}, {})
  /\ UNCHANGED <<tables, formVars, clockVars, wrapper, avatars>>

\* SpecTabs: one owner, one client project, the edit modal open in two tabs
TabUsers == {"u1"}
FormChanges ==
  {[progress |-> 75], [status |-> "completed"]}
NextTabs ==
  \/ \E u \in TabUsers : signUp(u, EmailOf[u], NoMeta)
  \/ \E c \in TabUsers : CreateClientModal_onSubmit(c)
  \/ \E c \in TabUsers : \E f \in ClientForms(c) :
        projects = {} /\ CreateProjectModal_onSubmit(c, f)
  \/ \E tab \in Tabs, c \in TabUsers, id \in ProjectIds : openModal(tab, c, id)
  \/ \E tab \in Tabs, change \in FormChanges : editForm(tab, change)
  \/ \E tab \in Tabs, cid \in ClientIds, checked \in BOOLEAN :
        handleClientToggle(tab, cid, checked)
  \/ \E tab \in Tabs : onSubmit_update(tab)
  \/ \E tab \in Tabs : onSubmit_delete(tab)
  \/ \E tab \in Tabs : onSubmit_insert(tab)
  \/ \E tab \in Tabs : closeModal(tab)

SpecTabs == Init /\ [][NextTabs]_vars

\* SpecKind: projects created and edited through the two modals, with the type
\* of the project changed by an edit
KindUsers == {"u1"}
KindForms(c) ==
  {[type |-> t, progress |-> 0, selected |-> sel] :
     t \in {"client", "personal", "open_source"}, sel \in SUBSET Selectable(c)}
NextKind ==
  \/ \E u \in KindUsers : signUp(u, EmailOf[u], NoMeta)
  \/ \E c \in KindUsers : CreateClientModal_onSubmit(c)
  \/ \E c \in KindUsers : \E f \in KindForms(c) : CreateProjectModal_onSubmit(c, f)
  \/ \E c \in KindUsers, id \in ProjectIds : \E f \in KindForms(c) :
        EditProjectModal_onSubmit(c, id, f)
  \/ \E c \in KindUsers, id \in ProjectIds : handleDeleteProject(c, id)

SpecKind == Init /\ [][NextKind]_vars

\* ------------------------------------ ProjectsList and DashboardOverview
ObsList(op, c, input, output) ==
  Merge(Obs(op, c, "ok", {}, {}), [input |-> input, output |-> output])
\* handleProjectUpdate(updatedProjects): setProjects(getSmartOrderedProjects(updatedProjects))
handleProjectUpdate(updatedProjects) ==
  /\ wrapper.caller # NULL
  /\ wrapper' = [wrapper EXCEPT !.projects = getSmartOrderedProjects(updatedProjects)]
  /\ lastOp' = ObsList("handleProjectUpdate", wrapper.caller, updatedProjects,
                       getSmartOrderedProjects(updatedProjects))
  /\ UNCHANGED <<tables, formVars, clockVars, modal, avatars>>
\* the dashboard renders getRecentProjects() of its projects
DashboardOverview_recentProjects ==
  /\ wrapper.caller # NULL
  /\ lastOp' = ObsList("getRecentProjects", wrapper.caller, wrapper.projects,
                       getRecentProjects(wrapper.projects))
  /\ UNCHANGED <<tables, formVars, clockVars, uiVars>>

\* SpecSort: the smart order applied to every list of up to MaxList projects
MaxList == 3
ListIds == 1..MaxList
ListItems ==
  {ProjectRow(i, [user_id |-> "u1", status |-> s, updated_at |-> t]) :
     i \in ListIds, s \in {"pending", "in_progress", "completed", "delivered"},
     t \in 0..1}
DistinctIds(s) == \A i, j \in DOMAIN s : i # j => s[i].id # s[j].id
Lists == {s \in UNION {[1..n -> ListItems] : n \in 0..MaxList} : DistinctIds(s)}
InitSort ==
  /\ auth_users = {[id |-> "u1", email |-> EmailOf["u1"], raw_user_meta_data |-> NoMeta]}
  /\ profiles = {handle_new_user_row([id |-> "u1", email |-> EmailOf["u1"],
                                       raw_user_meta_data |-> NoMeta])}
  /\ \E list \in Lists :
       /\ projects = {list[i] : i \in DOMAIN list}
       /\ wrapper = [NoWrapper EXCEPT !.caller = "u1", !.projects = list]
  /\ clients = {}
  /\ project_clients = {}
  /\ tasks = {}
  /\ project_timeline = {}
  /\ formProgress = 0
  /\ editing = 0
  /\ clock = 0
  /\ appClock = 0
  /\ modal = [t \in Tabs |-> ClosedModal]
  /\ avatars = NoAvatars
  /\ lastOp = Obs("init", Service, "ok", {}, {})
NextSort ==
  \/ handleProjectUpdate(wrapper.projects)
  \/ DashboardOverview_recentProjects

SpecSort == InitSort /\ [][NextSort]_vars

\* ------------------------------------------------- ProjectsListWrapper
\* handleFiltersChange(newFilters): setFilters(newFilters); setCurrentPage(1)
handleFiltersChange(statuses) ==
  /\ wrapper.caller # NULL
  /\ wrapper' = [wrapper EXCEPT !.statuses = statuses, !.currentPage = 1]
  /\ lastOp' = Obs("handleFiltersChange", wrapper.caller, "ok", {}, {})
  /\ UNCHANGED <<tables, formVars, clockVars, modal, avatars>>
\* <Pagination onPageChange={setCurrentPage}/>, rendered when totalPages > 1
setCurrentPage(page) ==
  /\ wrapper.caller # NULL
  /\ totalPages(wrapper) > 1
  /\ page \in 1..totalPages(wrapper)
  /\ wrapper' = [wrapper EXCEPT !.currentPage = page]
  /\ lastOp' = Obs("setCurrentPage", wrapper.caller, "ok", {}, {})
  /\ UNCHANGED <<tables, formVars, clockVars, modal, avatars>>

\* SpecList: the projects page of u1 opened on up to ITEMS_PER_PAGE + MaxOver
\* projects, every second one completed; pages and filters are changed, projects
\* created, edited and deleted from the page on display
MaxOver == 1
PageIds == 1..(ITEMS_PER_PAGE + MaxOver)
PageRow(i) ==
  ProjectRow(i, [user_id |-> "u1", updated_at |-> 0,
                 status |-> IF i % 2 = 0 THEN "completed" ELSE "in_progress"])
\* getProjects(): order("created_at", { ascending: false })
InitialProjects(n) == [i \in 1..n |-> PageRow(n + 1 - i)]
InitList ==
  /\ auth_users = {[id |-> "u1", email |-> EmailOf["u1"], raw_user_meta_data |-> NoMeta]}
  /\ profiles = {handle_new_user_row([id |-> "u1", email |-> EmailOf["u1"],
                                       raw_user_meta_data |-> NoMeta])}
  /\ \E n \in {0, 1, ITEMS_PER_PAGE, ITEMS_PER_PAGE + MaxOver} :
       /\ projects = {PageRow(i) : i \in 1..n}
       /\ wrapper = [NoWrapper EXCEPT !.caller = "u1", !.projects = InitialProjects(n)]
  /\ clients = {}
  /\ project_clients = {}
  /\ tasks = {}
  /\ project_timeline = {}
  /\ formProgress = 0
  /\ editing = 0
  /\ clock = 0
  /\ appClock = 0
  /\ modal = [t \in Tabs |-> ClosedModal]
  /\ avatars = NoAvatars
  /\ lastOp = Obs("init", Service, "ok", {}, {})
ListForms == {[type |-> "personal", progress |-> 50, selected |-> {}]}
ListFilters == {{}, {"completed"}}
\* the first project of the page on display
Displayed ==
  LET page == paginatedProjects(wrapper)
  IN IF page = <<>> THEN {} ELSE {page[1].id}
NextList ==
  \/ \E statuses \in ListFilters : handleFiltersChange(statuses)
  \/ \E page \in 1..(MaxOver + 1) : setCurrentPage(page)
  \/ \E id \in Displayed : handleDeleteProject("u1", id)
  \/ \E f \in ListForms : CreateProjectModal_onSubmit("u1", f)
  \/ \E id \in Displayed : \E f \in ListForms : EditProjectModal_onSubmit("u1", id, f)

SpecList == InitList /\ [][NextList]_vars

\* SpecOwner: projects and clients created and updated through the data-access
\* functions with payloads that name an owner, an id and a creation time
OwnerUpdatePayloads ==
  {[user_id |-> u] : u \in Users}
    \cup {[id |-> i] : i \in ProjectIds}
    \cup {[user_id |-> u, id |-> i, created_at |-> 0, progress |-> 75] :
            u \in Users, i \in ProjectIds}
NextOwner ==
  \/ \E u \in Users : signUp(u, EmailOf[u], NoMeta)
  \/ \E c \in Callers, p \in CreatePayloads : createProject(c, p)
  \/ \E c \in Callers, id \in ProjectIds, p \in OwnerUpdatePayloads : updateProject(c, id, p)
  \/ \E c \in Callers, p \in ClientPayloads : createNewClient(c, p)

SpecOwner == Init /\ [][NextOwner]_vars

\* ------------------------------------------------- SettingsForm: the avatar
\* storage.buckets 'avatars': allowed_mime_types (the 5 MB file_size_limit is
\* the limit the form tests before it uploads)
allowed_mime_types == {"image/jpeg", "image/png", "image/webp", "image/jpg"}
\* file.type.startsWith("image/")
IsImage(file) == file.type \in {"image/jpeg", "image/png", "image/webp", "image/jpg", "image/gif"}
\* `${user.id}-${Date.now()}.${fileExt}`
AvatarFileName(user, file) == <<user, appClock, file.ext>>
\* getPublicUrl(fileName): .../storage/v1/object/public/avatars/<fileName>
getPublicUrl(fileName) == <<"public", "avatars", fileName>>
\* avatar_url.split("/").pop()
LastSegment(url) == url[Len(url)]
\* storage.from("avatars").remove([name]); a failed remove leaves the blob
RemoveBlob(bucket, url, fault) ==
  IF url # NoUrl /\ fault # "remove" THEN bucket \ {LastSegment(url)} ELSE bucket
\* update({ avatar_url }).eq("id", user.id) under "Users can update own profile"
UpdateAvatarUrl(c, url) ==
  [u \in Users |->
     IF u = getUser(c) /\ (\E r \in profiles : r.id = u /\ profiles_update_policy(c, r))
     THEN url ELSE avatars.avatar_url[u]]
\* loadProfile: the form's profile is the stored one
SettingsForm_loadProfile(c) ==
  /\ \E r \in profiles : r.id = getUser(c)
  /\ avatars' = [avatars EXCEPT !.form = [caller |-> c, avatar_url |-> avatars.avatar_url[c],
                                          uploading |-> FALSE]]
  /\ lastOp' = Obs("loadProfile", c, "ok", {}, {})
  /\ UNCHANGED <<tables, formVars, clockVars, modal, wrapper>>
\* handleImageUpload: the tests of the file; then setUploading(true), remove the
\* old blob, upload the new one, write its public URL to the profile, set the
\* form's profile; finally setUploading(false). fault is the storage or database
\* call that fails, if any.
handleImageUpload(file, fault) ==
  LET c == avatars.form.caller
      fileName == AvatarFileName(getUser(c), file)
      removed == RemoveBlob(avatars.bucket, avatars.form.avatar_url, fault)
      uploaded == file.type \in allowed_mime_types /\ fault # "upload"
      updated == uploaded /\ fault # "update"
  IN /\ c # NULL
     /\ IF file.large \/ ~IsImage(file)
        THEN /\ lastOp' = Obs("handleImageUpload", c, "rejected", {}, {})
             /\ UNCHANGED avatars
        ELSE /\ avatars' =
                  [bucket |-> IF uploaded THEN removed \cup {fileName} ELSE removed,
                   avatar_url |-> IF updated THEN UpdateAvatarUrl(c, getPublicUrl(fileName))
                                  ELSE avatars.avatar_url,
                   form |-> [caller |-> c,
                             avatar_url |-> IF updated THEN getPublicUrl(fileName)
                                            ELSE avatars.form.avatar_url,
                             uploading |-> FALSE]]
             /\ lastOp' = Obs("handleImageUpload", c,
                              IF updated THEN "success" ELSE "failed", {}, {})
     /\ UNCHANGED <<tables, formVars, clockVars, modal, wrapper>>
\* handleRemoveImage: remove the blob (an error is only logged), set avatar_url
\* to null in the profile, then in the form's profile
handleRemoveImage(fault) ==
  LET c == avatars.form.caller
      updated == fault # "update"
  IN /\ c # NULL
     /\ avatars.form.avatar_url # NoUrl
     /\ avatars' =
          [bucket |-> RemoveBlob(avatars.bucket, avatars.form.avatar_url, fault),
           avatar_url |-> IF updated THEN UpdateAvatarUrl(c, NoUrl) ELSE avatars.avatar_url,
           form |-> [caller |-> c,
                     avatar_url |-> IF updated THEN NoUrl ELSE avatars.form.avatar_url,
                     uploading |-> FALSE]]
     /\ lastOp' = Obs("handleRemoveImage", c, IF updated THEN "success" ELSE "failed", {}, {})
     /\ UNCHANGED <<tables, formVars, clockVars, modal, wrapper>>

\* SpecAvatar: u1 on the settings page, choosing files and removing the picture,
\* with any one call of a handler failing
AvatarFiles ==
  {[type |-> "image/png", ext |-> "png", large |-> FALSE],
   [type |-> "image/png", ext |-> "png", large |-> TRUE],
   [type |-> "image/gif", ext |-> "gif", large |-> FALSE],
   [type |-> "text/plain", ext |-> "txt", large |-> FALSE]}
AvatarFaults == {"none", "remove", "upload", "update"}
NextAvatar ==
  \/ signUp("u1", EmailOf["u1"], NoMeta)
  \/ SettingsForm_loadProfile("u1")
  \/ \E file \in AvatarFiles, fault \in AvatarFaults : handleImageUpload(file, fault)
  \/ \E fault \in AvatarFaults : handleRemoveImage(fault)
  \/ \E t \in 0..MaxClock : appTick(t)

SpecAvatar == Init /\ [][NextAvatar]_vars

\* ------------------------------------------------------------ properties
SessionOps ==
  {"getProjects", "getProject", "createProject", "updateProject", "deleteProject",
   "getClients", "createNewClient", "EditProjectModal", "CreateProjectModal",
   "handleDeleteProject", "handleDeleteClient", "fetchClients", "CreateClientModal",
   "projects_with_clients", "project_stats"}

\* C1: whatever operations came before, every Project and Client row that an
\* operation of caller c returns, updates or deletes has user_id = c, on every
\* path a session has to the data.
C1_OwnerIsolation ==
  lastOp.op \in SessionOps =>
    /\ \A p \in lastOp.projects : p.user_id = auth_uid(lastOp.caller)
    /\ \A cl \in lastOp.clients : cl.user_id = auth_uid(lastOp.caller)

\* C4: a read of project_stats or projects_with_clients by caller c returns
\* only rows computed from projects whose user_id is c.
C4_ViewsOwnerScoped ==
  lastOp.op \in {"projects_with_clients", "project_stats"} =>
    /\ \A p \in lastOp.projects : p.user_id = auth_uid(lastOp.caller)
    /\ \A st \in lastOp.stats : st.user_id = auth_uid(lastOp.caller)

\* C2: for getProject, updateProject and deleteProject, a run in which the id
\* names a row of another owner and the run in which that row does not exist
\* return the same value, change the same rows and leave the caller's own
\* projects as they were.
WithoutRow(P, id) == {p \in P : p.id # id}
OwnView(P, c) == SelectProjects(P, c, NoFilter)
C2_NoExistenceLeak ==
  \A c \in Callers, id \in ProjectIds :
    (\E p \in projects : p.id = id /\ p.user_id # getUser(c)) =>
      /\ GetProjectRet(projects, c, id) = GetProjectRet(WithoutRow(projects, id), c, id)
      /\ GetProjectRows(projects, c, id) = GetProjectRows(WithoutRow(projects, id), c, id)
      /\ \A u \in UpdatePayloads :
           /\ UpdateProjectRet(projects, c, id, u)
                = UpdateProjectRet(WithoutRow(projects, id), c, id, u)
           /\ UpdateProjectTable(projects, c, id, u) = projects
           /\ OwnView(UpdateProjectTable(WithoutRow(projects, id), c, id, u), c)
                = OwnView(projects, c)
      /\ DeleteProjectRet(projects, c, id) = DeleteProjectRet(WithoutRow(projects, id), c, id)
      /\ DeleteProjectRows(projects, c, id) = {}
      /\ DeleteProjectRows(WithoutRow(projects, id), c, id) = {}
\* getProject has answered a caller while every id names a project of another owner
C2_Witness ==
  /\ lastOp.op = "getProject" /\ lastOp.caller = "u2" /\ lastOp.ret = "null"
  /\ Ids(projects) = ProjectIds
  /\ \A p \in projects : p.user_id = "u1"
  /\ "u2" \in Ids(profiles)

\* C5: without a session every read returns an empty result ([] or null), every
\* write returns null or false, and no table changes.
AnonDenied ==
  lastOp.caller = Anon =>
    /\ lastOp.projects = {} /\ lastOp.clients = {}
    /\ lastOp.op \in {"getProjects", "getClients"} => lastOp.ret = "rows"
    /\ lastOp.op \in {"getProject", "getProfile", "createProject", "createNewClient",
                      "updateProject", "updateProfile"} => lastOp.ret = "null"
    /\ lastOp.op = "deleteProject" => lastOp.ret = "false"
C5_Unauthenticated ==
  /\ []AnonDenied
  /\ [][lastOp'.caller = Anon => UNCHANGED tables]_vars
\* a delete without a session has been refused while rows are stored
C5_Witness ==
  /\ lastOp.caller = Anon /\ lastOp.op = "deleteProject" /\ lastOp.ret = "false"
  /\ projects # {} /\ clients # {}

\* C3: a read, insert, update or delete of a tasks, project_timeline or
\* project_clients row by caller c takes effect exactly when a project with
\* id = the row's project_id and user_id = c exists (for an update: for the
\* row as it was and as it would be).
ChildOps ==
  {"insert_task", "update_task", "delete_task", "select_tasks",
   "insert_timeline", "update_timeline", "delete_timeline", "select_timeline",
   "insert_link", "update_link", "delete_link", "select_links"}
OwnerOfProjectIs(c, pid) == \E p \in projects : p.id = pid /\ p.user_id = c
C3_ChildAccess ==
  lastOp.op \in ChildOps =>
    /\ lastOp.done \subseteq lastOp.cand
    /\ \A unit \in lastOp.cand :
         unit \in lastOp.done <=> \A r \in unit : OwnerOfProjectIs(lastOp.caller, r.project_id)
\* an update that would move the caller's own task to another owner's project
\* has been refused
C3_Witness ==
  /\ lastOp.op = "update_task" /\ lastOp.caller = "u2"
  /\ lastOp.cand # {} /\ lastOp.done = {}
  /\ \E unit \in lastOp.cand :
       /\ \E r \in unit : OwnerOfProjectIs("u2", r.project_id)
       /\ \E r \in unit : OwnerOfProjectIs("u1", r.project_id)

\* C6: deleting an identity removes its clients and projects and every task,
\* timeline entry and link of those projects in one step, and removes no row
\* that belongs to another identity.
C6_CascadeComplete ==
  lastOp.op = "deleteIdentity" =>
    /\ \A p \in projects \cup clients : p.user_id \in Ids(auth_users)
    /\ \A r \in project_clients \cup tasks \cup project_timeline :
         r.project_id \notin Ids(lastOp.projects)
    /\ \A r \in lastOp.cascaded : r.project_id \in Ids(lastOp.projects)

\* C7: no orphans: every task, timeline entry and link references an existing
\* project, every link an existing client, every client and project an
\* existing identity; a delete removes the row with all its dependents.
NoOrphans ==
  /\ \A r \in tasks \cup project_timeline \cup project_clients :
       r.project_id \in Ids(projects)
  /\ \A l \in project_clients : l.client_id \in Ids(clients)
  /\ \A r \in projects \cup clients : r.user_id \in Ids(profiles)
  /\ \A r \in profiles : r.id \in Ids(auth_users)
C7_NoOrphans ==
  /\ NoOrphans
  /\ lastOp.op \in {"deleteIdentity", "handleDeleteProject", "handleDeleteClient"} =>
       /\ lastOp.projects \cap projects = {} /\ lastOp.clients \cap clients = {}
       /\ lastOp.cascaded \cap (tasks \cup project_timeline \cup project_clients) = {}
\* a project has been deleted together with two child rows
C7_Witness ==
  /\ lastOp.op = "handleDeleteProject"
  /\ lastOp.projects # {} /\ Cardinality(lastOp.cascaded) = 2

\* C10: at most one link per (project_id, client_id); an insert of a pair that
\* is present fails and changes nothing; an insert of a pair that is absent
\* (after its link was deleted, too) succeeds.
UniqueLinks ==
  \A a, b \in project_clients :
    a.project_id = b.project_id /\ a.client_id = b.client_id => a = b
PairPresent(pid, cid) ==
  \E l \in project_clients : l.project_id = pid /\ l.client_id = cid
C10_UniqueLink ==
  /\ []UniqueLinks
  /\ [][\A c \in Users, pid \in ProjectIds, cid \in ClientIds :
          insert_link(c, pid, cid) =>
            IF PairPresent(pid, cid)
            THEN lastOp'.ret = "error" /\ UNCHANGED tables
            ELSE (OwnerOfProjectIs(c, pid) /\ cid \in Ids(clients)) =>
                   (lastOp'.ret = "row" /\ PairPresent(pid, cid)')]_vars
\* an insert of a present pair has just failed
C10_Witness ==
  /\ lastOp.op = "insert_link" /\ lastOp.ret = "error"
  /\ \E p \in projects, cl \in clients :
       /\ p.user_id = lastOp.caller /\ cl.user_id = lastOp.caller
       /\ PairPresent(p.id, cl.id)
       /\ Cardinality(projects) = 1

\* C8: the progress of every project is an integer from 0 to 100 in every
\* reachable state, however it was set (the +5/-5 buttons, the slider, the
\* presets, a payload); a create or update with a progress outside 0..100 is
\* refused and leaves the table as it was.
ProgressInRange == \A p \in projects : p.progress \in 0..100
OutOfRange == ProgressInputs \ (0..100)
RoundHalfUp(n, d) == (2 * n + d) \div (2 * d)
TotalOf(pid) == Cardinality({t \in tasks : t.project_id = pid})
CompletedOf(pid) == Cardinality({t \in tasks : t.project_id = pid /\ t.completed})
C9_Progress ==
  lastOp.op = "calculate_project_progress" =>
    /\ lastOp.ret = IF TotalOf(lastOp.arg) = 0 THEN 0
                    ELSE RoundHalfUp(100 * CompletedOf(lastOp.arg), TotalOf(lastOp.arg))
    /\ lastOp.ret \in 0..100
    /\ (TotalOf(lastOp.arg) = 4 /\ CompletedOf(lastOp.arg) = 3) => lastOp.ret = 75
    /\ (TotalOf(lastOp.arg) = 3 /\ CompletedOf(lastOp.arg) = 1) => lastOp.ret = 33
\* 1 of 8 tasks completed (12.5) has been rounded to 13 while the other project
\* holds a completed task
C9_Witness ==
  /\ lastOp.op = "calculate_project_progress" /\ lastOp.ret = 13
  /\ TotalOf(lastOp.arg) = 8 /\ CompletedOf(lastOp.arg) = 1
  /\ \E t \in tasks : t.project_id # lastOp.arg /\ t.completed

\* C11: the first authentication of a new identity token creates exactly one
\* profile, whose full_name is the metadata's full_name if present, else its
\* name if present, else the e-mail's text before '@', whatever profile
\* updates came before; a later authentication creates no second profile.
ProfilesOf(u) == {r \in profiles : r.id = u}
LocalPart(e) ==
  CHOOSE p \in {SubSeq(e, 1, k) : k \in 0..Len(e)} :
    /\ \A i \in 1..Len(p) : p[i] # "@"
    /\ Len(p) = Len(e) \/ e[Len(p) + 1] = "@"
DisplayName(new) ==
  IF new.raw_user_meta_data.full_name # NullText THEN new.raw_user_meta_data.full_name
  ELSE IF new.raw_user_meta_data.name # NullText THEN new.raw_user_meta_data.name
  ELSE LocalPart(new.email)
C11_Provisioning ==
  /\ lastOp.op = "signUp" =>
       /\ lastOp.ret = "ok"
       /\ Cardinality(ProfilesOf(lastOp.arg.id)) = 1
       /\ \A r \in ProfilesOf(lastOp.arg.id) : r.full_name = DisplayName(lastOp.arg)
  /\ lastOp.op = "signIn" => Cardinality(ProfilesOf(lastOp.arg.id)) = 1

\* C12: running the provisioning step again for an identity that has a profile
\* leaves exactly one profile for it, unchanged, and reports no error.
C12_ProvisioningIdempotent ==
  lastOp.op = "retry_handle_new_user" =>
    /\ Cardinality(ProfilesOf(lastOp.arg.id)) = 1
    /\ lastOp.ret # "error"

\* C17: no two profiles have the same email in any reachable state; a
\* provisioning, a settings form submit or an updateProfile that would store
\* an email another profile has is refused and changes nothing.
UniqueEmails == \A a, b \in profiles : a.email = b.email => a.id = b.id
EmailTakenByOther(u, e) == \E o \in profiles : o.id # u /\ o.email = e
C17_UniqueEmail ==
  /\ []UniqueEmails
  /\ [][\A u \in Users :
          /\ \A f \in SettingsForms :
               (SettingsForm_handleSubmit(u, f) /\ ProfilesOf(u) # {}
                  /\ EmailTakenByOther(u, f.email))
                 => (lastOp'.ret = "error" /\ UNCHANGED tables)
          /\ \A p \in ProfilePayloads :
               (updateProfile(u, p) /\ ProfilesOf(u) # {} /\ EmailTakenByOther(u, p.email))
                 => (lastOp'.ret = "null" /\ UNCHANGED tables)
          /\ \A m \in Metas :
               (signUp(u, EmailOf[u], m) /\ EmailTakenByOther(u, EmailOf[u]))
                 => (lastOp'.ret = "error" /\ UNCHANGED tables)]_vars
\* the settings form of a profile's owner has been refused an email that
\* another profile holds
C17_Witness ==
  /\ lastOp.op = "SettingsForm" /\ lastOp.ret = "error"
  /\ ProfilesOf(lastOp.caller) # {}
  /\ Cardinality(profiles) = 2

\* C13: every update of a clients, projects or tasks row stores updated_at =
\* the database time of the update, whatever updated_at the payload carries.
Rewritten(T, U) == {n \in U : \E r \in T : r.id = n.id /\ r # n}
C13_UpdatedAtIsCommitTime ==
  [][\A n \in Rewritten(projects, projects') \cup Rewritten(clients, clients')
               \cup Rewritten(tasks, tasks') : n.updated_at = clock']_vars
\* updateProject has written a row while the application's clock (the
\* payload's updated_at) showed another instant than the database's
C13_Witness ==
  /\ lastOp.op = "updateProject" /\ lastOp.ret = "row"
  /\ clock = 1 /\ appClock = 2
  /\ \E p \in projects : p.progress = 0 /\ p.updated_at = 1

\* C14: the updated_at of a project never decreases, from its creation on and
\* over every update, whatever timestamps the callers supply.
C14_UpdatedAtMonotone ==
  [][\A r \in projects, n \in projects' :
        r.id = n.id => n.updated_at >= r.updated_at]_vars

\* C15: reading the aggregate statistics for an identity that owns no project
\* yields a record for that identity in which the four counts, the two sums
\* and the average are all zero; the read never comes back without that record.
ZeroStats(u) ==
  [user_id |-> u, total_projects |-> 0, active_projects |-> 0,
   completed_projects |-> 0, delivered_projects |-> 0, total_budget |-> 0,
   total_revenue |-> 0, average_progress |-> 0]
OwnedBy(u) == {p \in projects : p.user_id = u}
C15_ZeroProjectsZeroStats ==
  (lastOp.op = "project_stats" /\ lastOp.caller \in Users
     /\ OwnedBy(lastOp.caller) = {})
    => ZeroStats(lastOp.caller) \in lastOp.stats

\* C16: the statistics of an identity are the number of its projects, the
\* numbers of those in progress, completed and delivered, the sum of their
\* budgets, the sum of their paid amounts and the mean of their progress; and
\* the total, active, completed and revenue figures the dashboard overview
\* shows are equal to these aggregates.
RECURSIVE SumOf(_, _)
SumOf(ps, col) ==
  IF ps = {} THEN 0
  ELSE LET p == CHOOSE x \in ps : TRUE
       IN (IF p[col] = NullNum THEN 0 ELSE p[col][1]) + SumOf(ps \ {p}, col)
RECURSIVE SumOfInt(_)
SumOfInt(ps) ==
  IF ps = {} THEN 0
  ELSE LET p == CHOOSE x \in ps : TRUE IN p.progress + SumOfInt(ps \ {p})
WithStatus(ps, s) == Cardinality({p \in ps : p.status = s})
ViewAgrees(st) ==
  LET ps == OwnedBy(st.user_id)
  IN /\ st.total_projects = Cardinality(ps)
     /\ st.active_projects = WithStatus(ps, "in_progress")
     /\ st.completed_projects = WithStatus(ps, "completed")
     /\ st.delivered_projects = WithStatus(ps, "delivered")
     /\ st.total_budget = SumOf(ps, "budget")
     /\ st.total_revenue = SumOf(ps, "paid_amount")
     /\ st.average_progress * Cardinality(ps) \in
           (SumOfInt(ps) * DivScale - Cardinality(ps))
             .. (SumOfInt(ps) * DivScale + Cardinality(ps))
DashboardAgrees(d, u) ==
  LET ps == OwnedBy(u)
  IN /\ d.totalProjects = Cardinality(ps)
     /\ d.activeProjects = WithStatus(ps, "in_progress")
     /\ d.completedProjects = WithStatus(ps, "completed")
     /\ d.totalRevenue = SumOf(ps, "paid_amount")
C16_StatsAggregates ==
  /\ lastOp.op = "project_stats" => \A st \in lastOp.stats : ViewAgrees(st)
  /\ (lastOp.op = "DashboardPage" /\ lastOp.caller \in Users)
       => \A d \in lastOp.stats : DashboardAgrees(d, lastOp.caller)

\* C18: a statement that violates a constraint is rejected as a whole; a
\* project edit or creation whose link-insert step fails leaves the project
\* row and the project's client links as they were before the submission and
\* does not report success.
HasLink(L, pid, cid) == \E l \in L : l.project_id = pid /\ l.client_id = cid
LeftAsBefore ==
  /\ projects' = projects
  /\ project_clients' = project_clients
  /\ lastOp'.ret # "success"
C18_LinkStepAtomic ==
  [][\A c \in Users : \A form \in ClientForms(c) :
       /\ (/\ CreateProjectModal_onSubmit(c, form)
           /\ form.selected # {}
           /\ ~\E p \in projects' \ projects :
                  \A cid \in form.selected : HasLink(project_clients', p.id, cid))
            => LeftAsBefore
       /\ \A id \in ProjectIds :
            (/\ EditProjectModal_onSubmit(c, id, form)
             /\ \E cid \in form.selected : ~HasLink(project_clients', id, cid))
              => LeftAsBefore]_vars

\* C19: in every reachable state every project has paid_amount >= 0: neither
\* the creation paths, nor the edit form's paid amount field, nor an update
\* payload sent directly stores a negative paid amount.
C19_PaidAmountNonNegative ==
  \A p \in projects : p.paid_amount # NullNum => p.paid_amount[1] >= 0

\* C20: a creation or an edit whose fields fail the range and shape checks (a
\* negative budget) is rejected before anything is written, so that in every
\* reachable state no project has a negative budget.
C20_BudgetNonNegative ==
  \A p \in projects : p.budget # NullNum => p.budget[1] >= 0

\* C21: when the storage answers with an error, a data-access read reports a
\* failure to its caller, which no answer of a working storage looks like (an
\* empty list is such an answer); and the health check reports unhealthy and
\* disconnected for every error but "no rows returned".
DataAccessOps == {"getProjects", "getClients"}
C21_FailureSurfaced ==
  /\ (lastOp.op \in DataAccessOps /\ lastOp.error # NoError) => lastOp.ret = "error"
  /\ (lastOp.op = "health" /\ lastOp.error \notin {NoError, "PGRST116"})
       => (lastOp.ret = "unhealthy" /\ lastOp.cand = {"disconnected"})

\* C22: when two edits of one project by its owner have both finished, the
\* stored row holds, field for field, the values of the edit whose update
\* committed last: no field of the other edit is left in it, and both edits
\* ended with success.
FinishedOn(id) == {t \in Tabs : modal[t].pc = "done" /\ modal[t].id = id}
LastCommitted(id) == CHOOSE t \in FinishedOn(id) : \A o \in FinishedOn(id) : modal[o].rank <= modal[t].rank
EditedFields == {"type", "status", "progress", "budget", "paid_amount"}
C22_LastCommitWins ==
  \A id \in ProjectIds :
    FinishedOn(id) = Tabs =>
      \E p \in projects :
        /\ p.id = id
        /\ \A f \in EditedFields : p[f] = ModalProjectData(modal[LastCommitted(id)])[f]
C22_Witness ==
  /\ FinishedOn(1) = Tabs
  /\ modal["t1"].rank < modal["t2"].rank
  /\ modal["t1"].progress = 75 /\ modal["t1"].status = "pending"
  /\ modal["t2"].progress = 0 /\ modal["t2"].status = "completed"
  /\ \E p \in projects : p.id = 1 /\ p.progress = 0 /\ p.status = "completed"

\* C23: in every reachable state each link joins a project and a client of one
\* owner: no caller links a project of their own to a client of another identity.
C23_LinkSameOwner ==
  \A l \in project_clients :
    \A p \in projects : \A cl \in clients :
      (p.id = l.project_id /\ cl.id = l.client_id) => p.user_id = cl.user_id

\* C24: when two edit submissions for one client project, each selecting
\* existing clients, have interleaved their statements and both have finished,
\* the clients linked to the project are the selection of the submission whose
\* row update committed last: not the union, not the other selection, not
\* nothing when that submission selected clients.
LinkedClients(id) == {l.client_id : l \in {x \in project_clients : x.project_id = id}}
C24_LinksOfLastCommit ==
  \A id \in ProjectIds :
    (/\ FinishedOn(id) = Tabs
     /\ \A t \in Tabs : modal[t].type = "client" /\ modal[t].selected \subseteq Ids(clients))
      => LinkedClients(id) = modal[LastCommitted(id)].selected

\* C25: in every reachable state a project whose type is not client has no
\* link, also after its type was edited from client to another type.
C25_OnlyClientProjectsLinked ==
  \A l \in project_clients : \A p \in projects :
    p.id = l.project_id => p.type = "client"

\* C28: the smart-ordered list never has a completed or delivered project
\* before a pending or in_progress one, within each of the two groups has the
\* most recently updated project first, and is a permutation of its input; the
\* dashboard's recent projects are in that order too.
SmartOrdered(s) ==
  \A i, j \in DOMAIN s :
    i < j => /\ ~(IsCompleted(s[i]) /\ ~IsCompleted(s[j]))
             /\ (IsCompleted(s[i]) = IsCompleted(s[j])) => s[i].updated_at >= s[j].updated_at
IsPermutation(s, t) ==
  /\ Len(s) = Len(t)
  /\ \E f \in [DOMAIN s -> DOMAIN t] :
       /\ \A i, j \in DOMAIN s : i # j => f[i] # f[j]
       /\ \A i \in DOMAIN s : s[i] = t[f[i]]
WrapperIds(w) == {w.projects[i].id : i \in DOMAIN w.projects}
C26_DeleteRemovesOnlyThatRecord ==
  [][\A id \in PageIds :
       (wrapper.caller = "u1" /\ handleDeleteProject("u1", id))
         => WrapperIds(wrapper') = WrapperIds(wrapper) \ {id}]_vars

\* C29: whatever pages and filters were chosen and whatever was created, edited
\* or deleted, 1 <= currentPage <= max(1, totalPages).
C29_CurrentPageInRange ==
  wrapper.caller # NULL
    => /\ 1 <= wrapper.currentPage
       /\ wrapper.currentPage <= (IF totalPages(wrapper) > 1 THEN totalPages(wrapper) ELSE 1)

\* C27: the owner of a project or client is the user who created it: createProject
\* and createNewClient write the session's user over any owner in the payload, and
\* no updateProject, whatever its payload (user_id, id, created_at), changes the
\* owner of a project.
CreatedBySession ==
  /\ lastOp'.op = "createProject"
       => \A r \in projects' \ projects : r.user_id = lastOp'.caller
  /\ lastOp'.op = "createNewClient"
       => \A r \in clients' \ clients : r.user_id = lastOp'.caller
OwnerKept ==
    lastOp'.op = "updateProject"
      => /\ Cardinality(projects' \ projects) <= 1
         /\ Cardinality(projects' \ projects) = Cardinality(projects \ projects')
         /\ \A n \in projects' \ projects : \A o \in projects \ projects' :
              n.user_id = o.user_id
C27_OwnerIsCreator == [][CreatedBySession /\ OwnerKept]_vars
\* an update whose payload names the owner, another id and a creation time has
\* been applied to a project of u1
C27_Witness ==
  /\ lastOp.op = "updateProject" /\ lastOp.ret = "row" /\ lastOp.caller = "u1"
  /\ \E r \in projects : r.progress = 75 /\ r.user_id = "u1" /\ r.id = 2
  /\ Cardinality(projects) = 1

\* C30: when handleImageUpload has finished, on any path, the avatar_url stored
\* in the profile is null or refers to a blob that is in the avatars bucket, and
\* the uploading flag is false.
C30_AvatarRefersToBlob ==
  lastOp.op = "handleImageUpload"
    => /\ \/ avatars.avatar_url[lastOp.caller] = NoUrl
          \/ LastSegment(avatars.avatar_url[lastOp.caller]) \in avatars.bucket
       /\ ~avatars.form.uploading

====
